---- MODULE Spec2Model ----
(***************************************************************************)
(* candig-client: the request/response dispatch layer of                   *)
(* src/candig/client/client.py.                                            *)
(*                                                                         *)
(*   - the response decoder (_defederate_response, _deserialize_response), *)
(*   - the pagination engine (_run_search_request, list_reference_bases),  *)
(*   - the two transports (HttpClient, LocalClient) and the get primitive. *)
(*                                                                         *)
(* A payload is the text as it is on the wire: a sequence of one-character *)
(* strings.  Python objects produced by json.loads are records             *)
(*   [t, s, keys, items]                                                   *)
(* t the Python type, s the characters of a scalar, keys/items the keys    *)
(* and the values of a dict (items alone for a list).                      *)
(***************************************************************************)
EXTENDS Integers, Sequences, FiniteSets, TLC

VARIABLES
    transport,                  \* "Remote" (HttpClient) or "Local" (LocalClient)
    _serialization,             \* the client's configured encoding
    _page_size,                 \* AbstractClient._page_size
    _id_token,                  \* HttpClient._id_token
    _session_headers,           \* HttpClient._session.headers
    _protocol_bytes_received,   \* AbstractClient._protocol_bytes_received
    gen,                        \* the generator a search call returned
    lrb,                        \* the list_reference_bases call
    getc,                       \* the get call
    trips,                      \* round trips issued by this client so far
    log,                        \* the transactions completed so far
    wire,                       \* decoder run: what the peer put on the wire
    content_type,               \* decoder run: the encoding handed to the decoder
    outcome,                    \* decoder run: what _deserialize_response did
    txn,                        \* transaction run: one transport call, start to end
    pair,                       \* paired run: a Remote and a Local client side by side
    opcall,                     \* the call of get_info, announce, list_peers or search_genotypes
    streams,                    \* two generators of two search calls on one client
    routed                      \* routing run: an operation and the requests it issued

client == <<transport, _serialization, _page_size, _id_token, _session_headers>>

\* the state of the runs that follow other operations
other_runs == <<opcall, streams, routed>>

decoder_run == <<wire, content_type, outcome, txn, pair, other_runs>>

vars == <<transport, _serialization, _page_size, _id_token, _session_headers,
          _protocol_bytes_received,
          gen, lrb, getc, trips, log, wire, content_type, outcome, txn, pair,
          opcall, streams, routed>>

----------------------------------------------------------------------------
(* Python values *)

PyInt(cs)  == [t |-> "int",  s |-> cs,   keys |-> <<>>, items |-> <<>>]
PyStr(cs)  == [t |-> "str",  s |-> cs,   keys |-> <<>>, items |-> <<>>]
PyBool(cs) == [t |-> "bool", s |-> cs,   keys |-> <<>>, items |-> <<>>]
PyNone     == [t |-> "None", s |-> <<>>, keys |-> <<>>, items |-> <<>>]
PyList(vs) == [t |-> "list", s |-> <<>>, keys |-> <<>>, items |-> vs]
PyDict(ks, vs) == [t |-> "dict", s |-> <<>>, keys |-> ks, items |-> vs]

\* dict[k] = v : a key already present keeps its place and takes the new value
DictSet(d, k, v) ==
    IF \E i \in 1..Len(d.keys) : d.keys[i] = k
    THEN PyDict(d.keys,
                [i \in 1..Len(d.items) |-> IF d.keys[i] = k THEN v ELSE d.items[i]])
    ELSE PyDict(Append(d.keys, k), Append(d.items, v))

DictHas(d, k) == \E i \in 1..Len(d.keys) : d.keys[i] = k

DictGet(d, k) == d.items[CHOOSE i \in 1..Len(d.keys) : d.keys[i] = k]

\* needle in hay, for two str: needle is a substring of hay
IsSubstring(needle, hay) ==
    \E i \in 0..(Len(hay) - Len(needle)) :
        \A j \in 1..Len(needle) : hay[i + j] = needle[j]

----------------------------------------------------------------------------
(* json.loads / json.dumps on the JSON subset the payloads use: objects,   *)
(* arrays, strings without escapes, unsigned integers, true/false/null and *)
(* blanks.                                                                 *)

Digit == {"0", "1", "2", "3", "4", "5", "6", "7", "8", "9"}

ParseFail == [ok |-> FALSE, val |-> PyNone, pos |-> 0]

ParseOk(v, p) == [ok |-> TRUE, val |-> v, pos |-> p]

RECURSIVE SkipBlanks(_, _)
SkipBlanks(text, i) ==
    IF i <= Len(text) /\ text[i] = " " THEN SkipBlanks(text, i + 1) ELSE i

\* the word w stands in text at position i
WordAt(text, i, w) ==
    /\ i + Len(w) - 1 <= Len(text)
    /\ \A j \in 1..Len(w) : text[i + j - 1] = w[j]

RECURSIVE ScanString(_, _, _)
\* text[i..] up to the closing quote; acc the characters read so far
ScanString(text, i, acc) ==
    IF i > Len(text) THEN ParseFail
    ELSE IF text[i] = "\"" THEN ParseOk(PyStr(acc), i + 1)
    ELSE IF text[i] = "\\" THEN ParseFail
    ELSE ScanString(text, i + 1, Append(acc, text[i]))

RECURSIVE ScanDigits(_, _, _)
ScanDigits(text, i, acc) ==
    IF i <= Len(text) /\ text[i] \in Digit
    THEN ScanDigits(text, i + 1, Append(acc, text[i]))
    ELSE ParseOk(PyInt(acc), i)

RECURSIVE ParseValue(_, _), ParseElements(_, _, _), ParseMembers(_, _, _)

\* an array, after its "[" and the blanks that follow, and then an object
ParseArray(text, j) ==
    IF j <= Len(text) /\ text[j] = "]" THEN ParseOk(PyList(<<>>), j + 1)
    ELSE ParseElements(text, j, <<>>)

ParseObject(text, j) ==
    IF j <= Len(text) /\ text[j] = "}" THEN ParseOk(PyDict(<<>>, <<>>), j + 1)
    ELSE ParseMembers(text, j, PyDict(<<>>, <<>>))

\* the value that starts at text[i], no blank before it
ParseValueAt(text, i) ==
    IF i > Len(text) THEN ParseFail
    ELSE IF text[i] = "{" THEN ParseObject(text, SkipBlanks(text, i + 1))
    ELSE IF text[i] = "[" THEN ParseArray(text, SkipBlanks(text, i + 1))
    ELSE IF text[i] = "\"" THEN ScanString(text, i + 1, <<>>)
    ELSE IF text[i] \in Digit THEN ScanDigits(text, i, <<>>)
    ELSE IF WordAt(text, i, <<"t", "r", "u", "e">>)
        THEN ParseOk(PyBool(<<"t", "r", "u", "e">>), i + 4)
    ELSE IF WordAt(text, i, <<"f", "a", "l", "s", "e">>)
        THEN ParseOk(PyBool(<<"f", "a", "l", "s", "e">>), i + 5)
    ELSE IF WordAt(text, i, <<"n", "u", "l", "l">>) THEN ParseOk(PyNone, i + 4)
    ELSE ParseFail

ParseValue(text, i) == ParseValueAt(text, SkipBlanks(text, i))

\* after the elements acc of an array, at text[j]: "]" or "," and the rest
ElementEnd(text, acc, j) ==
    IF j > Len(text) THEN ParseFail
    ELSE IF text[j] = "]" THEN ParseOk(PyList(acc), j + 1)
    ELSE IF text[j] = "," THEN ParseElements(text, j + 1, acc)
    ELSE ParseFail

\* e the element parsed after the elements acc
AfterElement(text, acc, e) ==
    IF ~e.ok THEN ParseFail
    ELSE ElementEnd(text, Append(acc, e.val), SkipBlanks(text, e.pos))

\* the elements of an array, text[i] the start of the next element
ParseElements(text, i, acc) == AfterElement(text, acc, ParseValue(text, i))

\* after the members d of an object, at text[j]: "}" or "," and the rest
MemberEnd(text, d, j) ==
    IF j > Len(text) THEN ParseFail
    ELSE IF text[j] = "}" THEN ParseOk(d, j + 1)
    ELSE IF text[j] = "," THEN ParseMembers(text, j + 1, d)
    ELSE ParseFail

\* v the value parsed for key; a key seen before takes the later value
AfterMember(text, d, key, v) ==
    IF ~v.ok THEN ParseFail
    ELSE MemberEnd(text, DictSet(d, key, v.val), SkipBlanks(text, v.pos))

\* the ":" at text[c], and the value after it
MemberValue(text, d, key, c) ==
    IF c > Len(text) \/ text[c] # ":" THEN ParseFail
    ELSE AfterMember(text, d, key, ParseValue(text, c + 1))

\* k the key string parsed
AfterKey(text, d, k) ==
    IF ~k.ok THEN ParseFail
    ELSE MemberValue(text, d, k.val.s, SkipBlanks(text, k.pos))

MemberKey(text, i, d) ==
    IF i > Len(text) \/ text[i] # "\"" THEN ParseFail
    ELSE AfterKey(text, d, ScanString(text, i + 1, <<>>))

\* the members of an object after the members d, from text[i] on
ParseMembers(text, i, d) == MemberKey(text, SkipBlanks(text, i), d)

\* r the value parsed: only blanks may follow it
Loaded(text, r) ==
    IF r.ok /\ SkipBlanks(text, r.pos) > Len(text)
    THEN [ok |-> TRUE, val |-> r.val]
    ELSE [ok |-> FALSE, val |-> PyNone]

\* json.loads(text): ok = FALSE stands for ValueError
json_loads(text) == Loaded(text, ParseValue(text, 1))

Quoted(cs) == <<"\"">> \o cs \o <<"\"">>

RECURSIVE Serialize(_, _, _), JoinItems(_, _, _, _, _)
\* the JSON text of v, with the given item and key separators
Serialize(v, item_sep, key_sep) ==
    IF v.t = "list" THEN <<"[">> \o JoinItems(v, 1, item_sep, key_sep, FALSE) \o <<"]">>
    ELSE IF v.t = "dict" THEN <<"{">> \o JoinItems(v, 1, item_sep, key_sep, TRUE) \o <<"}">>
    ELSE IF v.t = "str" THEN Quoted(v.s)
    ELSE IF v.t = "None" THEN <<"n", "u", "l", "l">>
    ELSE v.s

JoinItems(v, i, item_sep, key_sep, keyed) ==
    IF i > Len(v.items) THEN <<>>
    ELSE (IF i > 1 THEN item_sep ELSE <<>>)
         \o (IF keyed THEN Quoted(v.keys[i]) \o key_sep ELSE <<>>)
         \o Serialize(v.items[i], item_sep, key_sep)
         \o JoinItems(v, i + 1, item_sep, key_sep, keyed)

\* json.dumps(v): the default separators are ", " and ": "
json_dumps(v) == Serialize(v, <<",", " ">>, <<":", " ">>)

----------------------------------------------------------------------------
(* The response decoder *)

status_key  == <<"s", "t", "a", "t", "u", "s">>
results_key == <<"r", "e", "s", "u", "l", "t", "s">>

JSON_MIME     == "application/json"
PROTOBUF_MIME == "application/protobuf"

\* protocol.MIMETYPES
MIMETYPES == {PROTOBUF_MIME, JSON_MIME}

Returned(text) == [raised |-> "", text |-> text]

Raised(exc) == [raised |-> exc, text |-> <<>>]

\* Python's `key in body`: [ok |-> FALSE] stands for TypeError
py_in(key, body) ==
    IF body.t = "dict" THEN [ok |-> TRUE, val |-> DictHas(body, key)]
    ELSE IF body.t = "list"
        THEN [ok |-> TRUE,
              val |-> \E i \in 1..Len(body.items) :
                          body.items[i].t = "str" /\ body.items[i].s = key]
    ELSE IF body.t = "str" THEN [ok |-> TRUE, val |-> IsSubstring(key, body.s)]
    ELSE [ok |-> FALSE, val |-> FALSE]

\* _defederate_response with the unwrapping left out: every payload is
\* returned as it came
_defederate_response_no_unwrap(response_text) == Returned(response_text)

\* lines 47-49, response_body_json what json.loads returned
Unwrap(response_text, response_body_json) ==
    IF ~py_in(status_key, response_body_json).ok THEN Raised("TypeError")
    ELSE IF py_in(status_key, response_body_json).val
            /\ py_in(results_key, response_body_json).val
        THEN IF response_body_json.t = "dict"
             THEN Returned(json_dumps(DictGet(response_body_json, results_key)))
             ELSE Raised("TypeError")                \* list or str indexed by a str
    ELSE Returned(response_text)

\* lines 42-49, loaded what json.loads did
TryUnwrap(response_text, loaded) ==
    IF ~loaded.ok THEN Returned(response_text)       \* except ValueError
    ELSE Unwrap(response_text, loaded.val)

\* AbstractClient._defederate_response
_defederate_response(response_text) == TryUnwrap(response_text, json_loads(response_text))

NoObject == PyNone

\* the schema decoder's JSON branch: the text must be a JSON object
Message(loaded) ==
    IF loaded.ok /\ loaded.val.t = "dict"
    THEN [raised |-> "", obj |-> loaded.val]
    ELSE [raised |-> "DecodeFailure", obj |-> NoObject]

fromJson(text) == Message(json_loads(text))

\* The binary schema form of a message: a tag byte that no JSON text starts
\* with, then the fields.  The empty text is the message with no field set.
BINARY_TAG == "#"

toProtobufString(msg) ==
    IF Len(msg.items) = 0 THEN <<>>
    ELSE <<BINARY_TAG>> \o Serialize(msg, <<",">>, <<":">>)

fromProtobufString(text) ==
    IF text = <<>> THEN [raised |-> "", obj |-> PyDict(<<>>, <<>>)]
    ELSE IF text[1] = BINARY_TAG THEN fromJson(Tail(text))
    ELSE [raised |-> "DecodeFailure", obj |-> NoObject]

\* protocol.deserialize(data, mimetype, protocolMessageClass)
protocol_deserialize(data, mimetype) ==
    IF mimetype = PROTOBUF_MIME THEN fromProtobufString(data)
    ELSE IF mimetype = JSON_MIME THEN fromJson(data)
    ELSE [raised |-> "DecodeFailure", obj |-> NoObject]

\* How _deserialize_response ended: the exception raised ("" for none), the
\* decoded object, the counter after the call, the text after defederation
\* and the encoding the schema decoder was called with ("" when it was not).
Outcome(exc, obj, bytes, defed, mime) ==
    [raised |-> exc, obj |-> obj, bytes |-> bytes, defed |-> defed, decoded_as |-> mime]

\* lines 60-62: the schema decoder's answer is the answer
Deserialized(decoded, counted, defed_response_string, mimetype) ==
    Outcome(decoded.raised, decoded.obj, counted, defed_response_string, mimetype)

\* an empty-payload guard that does not look at the encoding
GuardAndDecode_any_encoding(counted, defed, mimetype) ==
    IF defed.raised # "" THEN Outcome(defed.raised, NoObject, counted, <<>>, "")
    ELSE IF defed.text = <<>>
        THEN Outcome("EmptyResponseException", NoObject, counted, defed.text, "")
    ELSE Deserialized(protocol_deserialize(defed.text, mimetype), counted, defed.text,
                      mimetype)

\* lines 58-62, defed what _defederate_response did
GuardAndDecode(counted, defed, mimetype) ==
    IF defed.raised # "" THEN Outcome(defed.raised, NoObject, counted, <<>>, "")
    ELSE IF defed.text = <<>> /\ mimetype = JSON_MIME
        THEN Outcome("EmptyResponseException", NoObject, counted, defed.text, "")
    ELSE Deserialized(protocol_deserialize(defed.text, mimetype), counted, defed.text,
                      mimetype)

\* a decoder that counts the payload after the defederation pass
_deserialize_response_counts_defed(bytes, response_string, mimetype) ==
    GuardAndDecode(bytes + Len(_defederate_response(response_string).text),
                   _defederate_response(response_string), mimetype)

\* a decoder that counts a payload once it has decoded it
_deserialize_response_counts_decoded(bytes, response_string, mimetype) ==
    LET o == GuardAndDecode(bytes, _defederate_response(response_string), mimetype)
    IN  IF o.raised = "" THEN [o EXCEPT !.bytes = bytes + Len(response_string)] ELSE o

\* AbstractClient._deserialize_response, bytes the counter before the call
_deserialize_response(bytes, response_string, mimetype) ==
    GuardAndDecode(bytes + Len(response_string),
                   _defederate_response(response_string), mimetype)

----------------------------------------------------------------------------
(* Response messages.  A decoded message is the dict of the fields that    *)
(* were on the wire; a field that was not has its default.                 *)

One   == PyInt(<<"1">>)
Two   == PyInt(<<"2">>)
Three == PyInt(<<"3">>)

ok_chars == <<"o", "k">>

datasets_key        == <<"d", "a", "t", "a", "s", "e", "t", "s">>
next_page_token_key == <<"n", "e", "x", "t", "P", "a", "g", "e", "T", "o", "k", "e", "n">>

\* a SearchDatasetsResponse with one element and a continuation token
SamplePage == PyDict(<<datasets_key, next_page_token_key>>, <<PyList(<<One>>), PyStr(<<"t">>)>>)

sequence_key == <<"s", "e", "q", "u", "e", "n", "c", "e">>

MsgField(msg, key, default) == IF DictHas(msg, key) THEN DictGet(msg, key) ELSE default

\* response_object.next_page_token
next_page_token(msg) == MsgField(msg, next_page_token_key, PyStr(<<>>)).s

\* getattr(response_object, protocol.getValueListName(protocol_response_class))
value_list(msg) == MsgField(msg, datasets_key, PyList(<<>>)).items

\* response.sequence of a ListReferenceBasesResponse
sequence(msg) == MsgField(msg, sequence_key, PyStr(<<>>)).s

\* What the serving side writes for a message: fields at their default are
\* left out, as the schema's serializers do.
SetFields(keys, values) ==
    LET keep == SelectSeq([i \in 1..Len(keys) |-> i],
                          LAMBDA i : values[i].s # <<>> \/ values[i].items # <<>>)
    IN  PyDict([j \in 1..Len(keep) |-> keys[keep[j]]],
               [j \in 1..Len(keep) |-> values[keep[j]]])

SearchResponse(elements, token) ==
    SetFields(<<datasets_key, next_page_token_key>>, <<PyList(elements), PyStr(token)>>)

ListReferenceBasesResponse(bases, token) ==
    SetFields(<<sequence_key, next_page_token_key>>, <<PyStr(bases), PyStr(token)>>)

peers_key == <<"p", "e", "e", "r", "s">>

\* the value list of a ListPeersResponse
peers(msg) == MsgField(msg, peers_key, PyList(<<>>)).items

ListPeersResponse(peer_list, token) ==
    SetFields(<<peers_key, next_page_token_key>>, <<PyList(peer_list), PyStr(token)>>)

genotypes_key == <<"g", "e", "n", "o", "t", "y", "p", "e", "s">>

\* resps[0].genotypes of a SearchGenotypesResponse
genotypes(msg) == MsgField(msg, genotypes_key, PyList(<<>>)).items

SearchGenotypesResponse(genotype_list, token) ==
    SetFields(<<genotypes_key, next_page_token_key>>, <<PyList(genotype_list), PyStr(token)>>)

\* protocol.serialize on the serving side
serialize(msg, mimetype) ==
    IF mimetype = PROTOBUF_MIME THEN toProtobufString(msg)
    ELSE Serialize(msg, <<",">>, <<":">>)

\* the envelope a federation proxy writes around results r
Envelope(st, r, style) ==
    IF style = "compact"
        THEN Serialize(PyDict(<<status_key, results_key>>, <<st, r>>), <<",">>, <<":">>)
    ELSE IF style = "spaced"
        THEN <<" ">> \o json_dumps(PyDict(<<status_key, results_key>>, <<st, r>>)) \o <<" ">>
    ELSE Serialize(PyDict(<<results_key, status_key>>, <<r, st>>), <<",">>, <<":">>)

----------------------------------------------------------------------------
(* The transports.  A reply is what one transport call brings back: for    *)
(* the Remote transport the HTTP response (status_code, the Content-Type   *)
(* header or NoHeader, the body), for the Local transport the string the   *)
(* backend returned, or backend_raised when the backend raised instead.    *)

HTTP_OK == 200

NoHeader == ""

Reply(code, ctype, text, failed) ==
    [status_code |-> code, content_type |-> ctype, text |-> text, backend_raised |-> failed]

\* What the serving side may answer.

tok1 == <<"t", "o", "k", "1">>
tok2 == <<"t", "o", "k", "2">>
p1   == <<"p", "1">>
p2   == <<"p", "2">>
ACGT == <<"A", "C", "G", "T">>
TTT  == <<"T", "T", "T">>

PageLists == {<<>>, <<One>>, <<One, Two>>}

SearchTokens == {<<>>, tok1, tok2}

Fragments == {ACGT, TTT, <<>>}

BasesTokens == {<<>>, p1, p2}

id_key == <<"i", "d">>

\* a Dataset, and one whose serving side also set a nextPageToken member
GetMessages ==
    { PyDict(<<id_key>>, <<PyStr(<<"d">>)>>),
      PyDict(<<id_key, next_page_token_key>>, <<PyStr(<<"d">>), PyStr(tok1)>>) }

RequestedSerializations == {JSON_MIME, PROTOBUF_MIME, "text/xml"}

\* the encoding the serving side answers in: the one asked for, JSON when
\* it does not know the one asked for
Negotiated(serialization) ==
    IF serialization \in MIMETYPES THEN serialization ELSE JSON_MIME

\* the replies to a request for one of msgs, one of them wrapped by a proxy
Replies(kind, serialization, msgs, wrapped) ==
    LET enc == Negotiated(serialization) IN
    IF kind = "Remote"
    THEN { Reply(HTTP_OK, enc, serialize(m, enc), FALSE) : m \in msgs }
         \cup { Reply(HTTP_OK, JSON_MIME, Envelope(PyStr(ok_chars), wrapped, "compact"), FALSE),
                Reply(HTTP_OK, NoHeader, serialize(wrapped, enc), FALSE),
                Reply(HTTP_OK, enc, <<>>, FALSE),
                Reply(HTTP_OK, JSON_MIME, <<"<", "h", "t", "m", "l", ">">>, FALSE),
                Reply(500, enc, <<"<", "h", "t", "m", "l", ">">>, FALSE) }
    ELSE { Reply(HTTP_OK, NoHeader, serialize(m, enc), FALSE) : m \in msgs }
         \cup { Reply(HTTP_OK, NoHeader, <<>>, FALSE),
                Reply(HTTP_OK, NoHeader, <<>>, TRUE) }

Kinds == {"Remote", "Local"}

\* every value _serialization can have after construction
Serializations == RequestedSerializations

SearchReplies ==
    [kind \in Kinds, serialization \in Serializations |->
        Replies(kind, serialization,
                { SearchResponse(e, t) : e \in PageLists, t \in SearchTokens },
                SearchResponse(<<One>>, <<>>))]

BasesReplies ==
    [kind \in Kinds, serialization \in Serializations |->
        Replies(kind, serialization,
                { ListReferenceBasesResponse(f, t) : f \in Fragments, t \in BasesTokens },
                ListReferenceBasesResponse(TTT, <<>>))]

GetReplies ==
    [kind \in Kinds, serialization \in Serializations |->
        Replies(kind, serialization, GetMessages, PyDict(<<id_key>>, <<PyStr(<<"d">>)>>))]

\* the replies to list_peers
PeersReplies ==
    [kind \in Kinds, serialization \in Serializations |->
        Replies(kind, serialization,
                { ListPeersResponse(e, t) : e \in PageLists, t \in SearchTokens },
                ListPeersResponse(<<One>>, <<>>))]

\* the replies to the page requests of search_genotypes
GenotypesReplies ==
    [kind \in Kinds, serialization \in Serializations |->
        Replies(kind, serialization,
                { SearchGenotypesResponse(e, t) : e \in PageLists, t \in SearchTokens },
                SearchGenotypesResponse(<<One>>, <<>>))]

\* every body and every encoding a transport can hand to the decoder
ReplyTexts ==
    { r.text : r \in UNION { SearchReplies[k, z] \cup BasesReplies[k, z] \cup GetReplies[k, z]
                                 \cup PeersReplies[k, z] \cup GenotypesReplies[k, z] :
                                 k \in Kinds, z \in Serializations } }

ReplyMimetypes == MIMETYPES \cup Serializations

\* _deserialize_response on each of them, worked out once
deserialized ==
    [text \in ReplyTexts, mimetype \in ReplyMimetypes |->
        _deserialize_response(0, text, mimetype)]

\* AbstractClient._deserialize_response, for a reply
_deserialize_reply(bytes, response_string, mimetype) ==
    [deserialized[response_string, mimetype] EXCEPT !.bytes = bytes + @]

\* AbstractClient.__init__ : an unsupported serialization becomes protobuf
AbstractClient_init(serialization) ==
    IF serialization \notin MIMETYPES THEN PROTOBUF_MIME ELSE serialization

\* HttpClient.__init__ : assigns the requested serialization again
HttpClient_init(serialization) == serialization

\* LocalClient.__init__
LocalClient_init(serialization) ==
    IF serialization \notin MIMETYPES THEN PROTOBUF_MIME ELSE serialization

\* The headers of a session: authorization is <<>> when there is none.
\* A client with no HTTP session has NoHeaders.
NoHeaders == [Content_type |-> "", Accept |-> "", authorization |-> <<>>]

Bearer == <<"B", "e", "a", "r", "e", "r", " ">>

\* the id_token arguments of the constructor: None, "" and a token
IdTokens == {PyNone, PyStr(<<>>), PyStr(<<"j", "w", "t">>)}

\* Python's truth value of an id_token
Truthy(id_token) == id_token.t = "str" /\ id_token.s # <<>>

\* a session whose Accept header is always the JSON encoding
_setup_http_session_accepts_json(serialization, id_token) ==
    [Content_type |-> JSON_MIME, Accept |-> JSON_MIME,
     authorization |-> IF Truthy(id_token) THEN Bearer \o id_token.s ELSE <<>>]

\* HttpClient._setup_http_session
_setup_http_session(serialization, id_token) ==
    [Content_type |-> JSON_MIME, Accept |-> serialization,
     authorization |-> IF Truthy(id_token) THEN Bearer \o id_token.s ELSE <<>>]

\* the headers after construction: HttpClient.__init__ sets up its session
\* with the encoding it has just assigned, LocalClient has no session
SessionHeaders(kind, serialization, id_token) ==
    IF kind = "Remote" THEN _setup_http_session(HttpClient_init(serialization), id_token)
    ELSE NoHeaders

\* the configured encoding whatever the response declares
_get_response_mimetype_configured(response, serialization) == serialization

\* HttpClient._get_response_mimetype
_get_response_mimetype(response, serialization) ==
    IF response.content_type # NoHeader THEN response.content_type ELSE serialization

\* what a page or get transaction hands back to its caller
Result(o) == [raised |-> o.raised, obj |-> o.obj, bytes |-> o.bytes]

\* a failure that also clears the counter
Failed_resets(exc, bytes) == [raised |-> exc, obj |-> NoObject, bytes |-> 0]

Failed(exc, bytes) == [raised |-> exc, obj |-> NoObject, bytes |-> bytes]

\* What a transaction hands to _deserialize_response, when it gets that far
NoCall(exc) == [called |-> FALSE, raised |-> exc, response_string |-> <<>>, content_type |-> ""]

Call(response_string, mimetype) ==
    [called |-> TRUE, raised |-> "", response_string |-> response_string,
     content_type |-> mimetype]

\* a transaction that does not look at the status code
HttpClient_call_unchecked(serialization, response) ==
    Call(response.text, _get_response_mimetype(response, serialization))

\* a transaction that takes every 2xx status for a success
HttpClient_call_any_2xx(serialization, response) ==
    IF response.status_code \notin 200..299
    THEN NoCall("RequestNonSuccessException")
    ELSE Call(response.text, _get_response_mimetype(response, serialization))

\* HttpClient: _check_response_status, then the arguments of the decoder
HttpClient_call(serialization, response) ==
    IF response.status_code # HTTP_OK
    THEN NoCall("RequestNonSuccessException")
    ELSE Call(response.text, _get_response_mimetype(response, serialization))

\* a Local transaction that always decodes as JSON
LocalClient_call_as_json(serialization, response) ==
    IF response.backend_raised
    THEN NoCall("BackendException")
    ELSE Call(response.text, JSON_MIME)

\* LocalClient: the backend's exception, if any, leaves the call as it is
LocalClient_call(serialization, response) ==
    IF response.backend_raised
    THEN NoCall("BackendException")
    ELSE Call(response.text, serialization)

\* the call of either transport
DecoderCall(kind, serialization, response) ==
    IF kind = "Remote" THEN HttpClient_call(serialization, response)
    ELSE LocalClient_call(serialization, response)

\* the transaction ends as the decoder call ends, or with what stopped it
Completed(bytes, call) ==
    IF ~call.called THEN Failed(call.raised, bytes)
    ELSE Result(_deserialize_reply(bytes, call.response_string, call.content_type))

\* HttpClient: _check_response_status, then _deserialize_response
HttpClient_transaction(bytes, serialization, response) ==
    Completed(bytes, HttpClient_call(serialization, response))

\* LocalClient: the backend's string goes to _deserialize_response
LocalClient_transaction(bytes, serialization, response) ==
    Completed(bytes, LocalClient_call(serialization, response))

Transaction(kind, bytes, serialization, response) ==
    IF kind = "Remote" THEN HttpClient_transaction(bytes, serialization, response)
    ELSE LocalClient_transaction(bytes, serialization, response)

\* HttpClient / LocalClient ._run_search_page_request
_run_search_page_request(kind, bytes, serialization, response) ==
    Transaction(kind, bytes, serialization, response)

\* HttpClient / LocalClient ._run_list_reference_bases_page_request
_run_list_reference_bases_page_request(kind, bytes, serialization, response) ==
    Transaction(kind, bytes, serialization, response)

\* HttpClient / LocalClient ._run_get_request, from the reply on
_run_get_request(kind, bytes, serialization, response) ==
    Transaction(kind, bytes, serialization, response)

\* raise NotImplemented(): calling the NotImplemented constant is a TypeError
NotImplementedRaised(bytes) == Failed("TypeError", bytes)

\* HttpClient / LocalClient ._run_http_get_request, from the reply on:
\* the LocalClient serves the path "info" alone
_run_http_get_request(kind, path, bytes, serialization, response) ==
    IF kind = "Remote" THEN HttpClient_transaction(bytes, serialization, response)
    ELSE IF path = "info" THEN LocalClient_transaction(bytes, serialization, response)
    ELSE NotImplementedRaised(bytes)

\* a LocalClient that serves every path of a post as it serves "peers/list"
_run_http_post_request_serves_any_path(kind, path, bytes, serialization, response) ==
    IF kind = "Remote" THEN HttpClient_transaction(bytes, serialization, response)
    ELSE LocalClient_transaction(bytes, serialization, response)

\* HttpClient / LocalClient ._run_http_post_request, from the reply on:
\* the LocalClient serves the paths "announce" and "peers/list" alone
_run_http_post_request(kind, path, bytes, serialization, response) ==
    IF kind = "Remote" THEN HttpClient_transaction(bytes, serialization, response)
    ELSE IF path = "announce" THEN LocalClient_transaction(bytes, serialization, response)
    ELSE IF path = "peers/list" THEN LocalClient_transaction(bytes, serialization, response)
    ELSE NotImplementedRaised(bytes)

\* AbstractClient._run_get_request_path
_run_get_request_path(kind, path, bytes, serialization, response) ==
    _run_http_get_request(kind, path, bytes, serialization, response)

\* AbstractClient._run_post_request
_run_post_request(kind, path, bytes, serialization, response) ==
    _run_http_post_request(kind, path, bytes, serialization, response)

----------------------------------------------------------------------------
(* The pagination engine, element-stream mode: the generator of            *)
(* _run_search_request.                                                    *)
(*   pc         "none"  no search was called                               *)
(*              "INIT"  created, never asked for an element                *)
(*              "AWAIT_PAGE"  inside _run_search_page_request              *)
(*              "EMIT"  suspended at the yield of value_list[idx]          *)
(*              "DONE"  the loop ended;  "RAISED"  an exception ended it   *)
(*   page_token, page_size    the request's fields                         *)
(*   value_list, response_token   the page being emitted                   *)
(*   sent       the page_token of every request issued, in order           *)
(*   sent_sizes the page_size of every request issued, in order            *)
(*   pages      every page received, in order                              *)
(*   yielded    every element handed to the caller, in order               *)
(*   delivered  what the caller's last request for an element got         *)
(*   stops      how many of its requests were answered by StopIteration    *)

NoGenerator ==
    [pc |-> "none", page_token |-> <<>>, page_size |-> PyNone, value_list |-> <<>>,
     idx |-> 0, response_token |-> <<>>, sent |-> <<>>, sent_sizes |-> <<>>,
     pages |-> <<>>, yielded |-> <<>>, delivered |-> "nothing", stops |-> 0]

\* a search method that sends the first page request itself
Generator_started(page_size) ==
    [NoGenerator EXCEPT !.pc = "AWAIT_PAGE", !.page_size = page_size,
                        !.sent = <<<<>>>>, !.sent_sizes = <<page_size>>]

\* a search method: a fresh request, and the generator over it, not started
Generator(page_size) == [NoGenerator EXCEPT !.pc = "INIT", !.page_size = page_size]

\* a page request that takes its page_size from the client as it leaves
IssuePageRequest_sized_on_leaving(g) ==
    [g EXCEPT !.pc = "AWAIT_PAGE", !.sent = Append(@, g.page_token),
              !.sent_sizes = Append(@, _page_size), !.delivered = "blocked"]

\* line 113: the page request leaves with the request as it is now
IssuePageRequest(g) ==
    [g EXCEPT !.pc = "AWAIT_PAGE", !.sent = Append(@, g.page_token),
              !.sent_sizes = Append(@, g.page_size), !.delivered = "blocked"]

\* the end of a page with line 121 left out: the request keeps its token
EndOfPage_stale_token(g) ==
    IF g.response_token # <<>> THEN IssuePageRequest(g)
    ELSE [g EXCEPT !.pc = "DONE", !.delivered = "StopIteration", !.stops = @ + 1]

\* the end of a page whose loop test never lets the loop end
EndOfPage_never_done(g) ==
    IF g.response_token # <<>> THEN IssuePageRequest([g EXCEPT !.page_token = g.response_token])
    ELSE g

\* the end of a page whose loop gives up after its second round trip
EndOfPage_caps_round_trips(g) ==
    LET not_done == g.response_token # <<>> /\ Len(g.sent) < 2
        g1 == [g EXCEPT !.page_token = g.response_token]
    IN  IF not_done THEN IssuePageRequest(g1)
        ELSE [g1 EXCEPT !.pc = "DONE", !.delivered = "StopIteration", !.stops = @ + 1]

\* the end of a page whose loop test also looks at what the page held
EndOfPage_stops_on_empty_page(g) ==
    LET not_done == g.response_token # <<>> /\ g.value_list # <<>>
        g1 == [g EXCEPT !.page_token = g.response_token]
    IN  IF not_done THEN IssuePageRequest(g1)
        ELSE [g1 EXCEPT !.pc = "DONE", !.delivered = "StopIteration", !.stops = @ + 1]

\* lines 120-121, then the loop test of line 112
EndOfPage(g) ==
    LET not_done == g.response_token # <<>>
        g1 == [g EXCEPT !.page_token = g.response_token]
    IN  IF not_done THEN IssuePageRequest(g1)
        ELSE [g1 EXCEPT !.pc = "DONE", !.delivered = "StopIteration", !.stops = @ + 1]

\* line 119: yield value_list[i]
Yield(g, i) ==
    [g EXCEPT !.pc = "EMIT", !.idx = i, !.yielded = Append(@, g.value_list[i]),
              !.delivered = "element"]

\* the for loop stopping one element short of the end of the page
ForLoop_drops_last(g, i) == IF i < Len(g.value_list) THEN Yield(g, i) ELSE EndOfPage(g)

\* the for loop asking for the next page as it yields the last element
ForLoop_prefetch(g, i) ==
    IF i > Len(g.value_list) THEN EndOfPage(g)
    ELSE IF i = Len(g.value_list) /\ g.response_token # <<>>
        THEN [Yield(g, i) EXCEPT !.sent = Append(@, g.response_token)]
    ELSE Yield(g, i)

\* lines 118-119: the for loop, from position i on
ForLoop(g, i) == IF i <= Len(g.value_list) THEN Yield(g, i) ELSE EndOfPage(g)

\* a generator that starts over when asked again after its end
_run_search_request_next_restarts(g) ==
    IF g.pc = "EMIT" THEN ForLoop(g, g.idx + 1)
    ELSE IssuePageRequest([g EXCEPT !.page_token = <<>>])

\* a generator that sends its page request again when asked after a failure
_run_search_request_next_resumes(g) ==
    IF g.pc \in {"INIT", "RAISED"} THEN IssuePageRequest(g)
    ELSE IF g.pc = "EMIT" THEN ForLoop(g, g.idx + 1)
    ELSE [g EXCEPT !.delivered = "StopIteration", !.stops = @ + 1]

\* next() on the generator: it runs to its next yield, page request or end
_run_search_request_next(g) ==
    IF g.pc = "INIT" THEN IssuePageRequest(g)
    ELSE IF g.pc = "EMIT" THEN ForLoop(g, g.idx + 1)
    ELSE [g EXCEPT !.delivered = "StopIteration", !.stops = @ + 1]

\* a generator that sends a failed page request again
_run_search_request_page_retries(g, result) ==
    IF result.raised # "" THEN IssuePageRequest(g)
    ELSE ForLoop([g EXCEPT !.value_list = value_list(result.obj),
                           !.response_token = next_page_token(result.obj),
                           !.pages = Append(@, [elements |-> value_list(result.obj),
                                                token |-> next_page_token(result.obj)])],
                 1)

\* lines 113-117: the page request returns, or raises through the generator
_run_search_request_page(g, result) ==
    IF result.raised # "" THEN [g EXCEPT !.pc = "RAISED", !.delivered = result.raised]
    ELSE ForLoop([g EXCEPT !.value_list = value_list(result.obj),
                           !.response_token = next_page_token(result.obj),
                           !.pages = Append(@, [elements |-> value_list(result.obj),
                                                token |-> next_page_token(result.obj)])],
                 1)

\* next() on the generator of _run_list_request
_run_list_request_next(g) ==
    IF g.pc = "INIT" THEN IssuePageRequest(g)
    ELSE IF g.pc = "EMIT" THEN ForLoop(g, g.idx + 1)
    ELSE [g EXCEPT !.delivered = "StopIteration", !.stops = @ + 1]

\* lines 85-89 of _run_list_request: _run_http_post_request returns, or
\* raises through the generator
_run_list_request_page(g, result) ==
    IF result.raised # "" THEN [g EXCEPT !.pc = "RAISED", !.delivered = result.raised]
    ELSE ForLoop([g EXCEPT !.value_list = peers(result.obj),
                           !.response_token = next_page_token(result.obj),
                           !.pages = Append(@, [elements |-> peers(result.obj),
                                                token |-> next_page_token(result.obj)])],
                 1)

----------------------------------------------------------------------------
(* The pagination engine, accumulation mode: list_reference_bases.         *)
(*   pc   "none", "AWAIT_PAGE", "RETURNED" or "RAISED"                     *)
(*   bases_list   the fragments appended so far                            *)
(*   returned, result   whether the call has returned, and what            *)

NoBasesCall ==
    [pc |-> "none", page_token |-> <<>>, bases_list |-> <<>>, sent |-> <<>>,
     pages |-> <<>>, returned |-> FALSE, result |-> <<>>, raised |-> ""]

\* line 146: the page request leaves with the request as it is now
IssueBasesRequest(l) == [l EXCEPT !.pc = "AWAIT_PAGE", !.sent = Append(@, l.page_token)]

RECURSIVE join(_), join_reversed(_)
\* the fragments joined last first
join_reversed(list) == IF list = <<>> THEN <<>> ELSE join_reversed(Tail(list)) \o Head(list)

\* "".join(bases_list)
join(list) == IF list = <<>> THEN <<>> ELSE Head(list) \o join(Tail(list))

\* lines 137-146: the request is built and the first page requested
list_reference_bases_enter == IssueBasesRequest(NoBasesCall)

\* a call that hands back each fragment as it arrives
list_reference_bases_page_lazy(l, result) ==
    IF result.raised # "" THEN [l EXCEPT !.pc = "RAISED", !.raised = result.raised]
    ELSE [l EXCEPT !.bases_list = Append(@, sequence(result.obj)),
                   !.pages = Append(@, [sequence |-> sequence(result.obj),
                                        token |-> next_page_token(result.obj)]),
                   !.page_token = next_page_token(result.obj),
                   !.pc = "RETURNED", !.returned = TRUE,
                   !.result = sequence(result.obj)]

\* lines 146-150: a page request returns, or raises through the call
list_reference_bases_page(l, result) ==
    IF result.raised # "" THEN [l EXCEPT !.pc = "RAISED", !.raised = result.raised]
    ELSE LET not_done == next_page_token(result.obj) # <<>>
             l1 == [l EXCEPT !.bases_list = Append(@, sequence(result.obj)),
                             !.pages = Append(@, [sequence |-> sequence(result.obj),
                                                  token |-> next_page_token(result.obj)]),
                             !.page_token = next_page_token(result.obj)]
         IN  IF not_done THEN IssueBasesRequest(l1)
             ELSE [l1 EXCEPT !.pc = "RETURNED", !.returned = TRUE,
                             !.result = join(l1.bases_list)]

----------------------------------------------------------------------------
(* search_genotypes: the paging is done inside the call.                   *)
(*   resps    the responses appended so far                                *)
(*   handed   the elements the caller has been given so far                *)

NoGenotypesCall ==
    [pc |-> "none", page_token |-> <<>>, resps |-> <<>>, sent |-> <<>>,
     returned |-> FALSE, handed |-> <<>>, raised |-> ""]

\* line 493: the page request leaves with the request as it is now
IssueGenotypesRequest(c) == [c EXCEPT !.pc = "AWAIT_PAGE", !.sent = Append(@, c.page_token)]

\* lines 483-493: the request is built and the first page requested
search_genotypes_enter == IssueGenotypesRequest(NoGenotypesCall)

\* a search_genotypes that returns the genotypes of every page, combined
search_genotypes_page_combines(c, result) ==
    IF result.raised # "" THEN [c EXCEPT !.pc = "RAISED", !.raised = result.raised]
    ELSE LET not_done == next_page_token(result.obj) # <<>>
             c1 == [c EXCEPT !.resps = Append(@, [elements |-> genotypes(result.obj),
                                                  token |-> next_page_token(result.obj)]),
                             !.page_token = next_page_token(result.obj),
                             !.handed = @ \o genotypes(result.obj)]
         IN  IF not_done THEN IssueGenotypesRequest([c1 EXCEPT !.handed = <<>>])
             ELSE [c1 EXCEPT !.pc = "RETURNED", !.returned = TRUE,
                             !.handed = c.handed \o genotypes(result.obj)]

\* lines 493-500: a page request returns, or raises through the call; at the
\* end the genotypes of resps[0] are returned (its variants and call_set_ids
\* travel with them)
search_genotypes_page(c, result) ==
    IF result.raised # "" THEN [c EXCEPT !.pc = "RAISED", !.raised = result.raised]
    ELSE LET not_done == next_page_token(result.obj) # <<>>
             c1 == [c EXCEPT !.resps = Append(@, [elements |-> genotypes(result.obj),
                                                  token |-> next_page_token(result.obj)]),
                             !.page_token = next_page_token(result.obj)]
         IN  IF not_done THEN IssueGenotypesRequest(c1)
             ELSE [c1 EXCEPT !.pc = "RETURNED", !.returned = TRUE,
                             !.handed = c1.resps[1].elements]

----------------------------------------------------------------------------
(* The get primitive.                                                      *)
(*   pc   "none", "AWAIT", "RETURNED" or "RAISED"                          *)
(*   calls   transport calls this get has issued                           *)

NoGetCall == [pc |-> "none", calls |-> 0, obj |-> NoObject, raised |-> ""]

\* _run_get_request up to the transport call
_run_get_request_enter == [NoGetCall EXCEPT !.pc = "AWAIT", !.calls = 1]

\* a get that treats its response as a page and asks for the next one
_run_get_request_paginating(gc, result) ==
    IF result.raised # "" THEN [gc EXCEPT !.pc = "RAISED", !.raised = result.raised]
    ELSE IF next_page_token(result.obj) # <<>> THEN [gc EXCEPT !.calls = @ + 1]
    ELSE [gc EXCEPT !.pc = "RETURNED", !.obj = result.obj]

\* _run_get_request after the transport call: the decoded object is returned
_run_get_request_leave(gc, result) ==
    IF result.raised # "" THEN [gc EXCEPT !.pc = "RAISED", !.raised = result.raised]
    ELSE [gc EXCEPT !.pc = "RETURNED", !.obj = result.obj]

----------------------------------------------------------------------------
(* The record of a client's transactions *)

\* The transactions completed so far:
\*   count       how many
\*   handed      the lengths, summed, of the payloads handed to the decoder
\*   successful  the lengths, summed, of those it decoded without raising
NoLog == [count |-> 0, handed |-> 0, successful |-> 0]

Logged(l, call_, response, result) ==
    [count |-> l.count + 1,
     handed |-> l.handed + (IF call_.called THEN Len(response.text) ELSE 0),
     successful |-> l.successful
                    + (IF call_.called /\ result.raised = "" THEN Len(response.text) ELSE 0)]

\* no paired run
NoPair ==
    [op |-> "none", requested |-> "", remote |-> NoGetCall, local |-> NoGetCall,
     remote_bytes |-> 0, local_bytes |-> 0]

\* no call of another operation
NoOpCall == [op |-> "none", st |-> NoGetCall]

\* no pair of streams
NoStreams ==
    [g |-> <<NoGenerator, NoGenerator>>, handed |-> <<0, 0>>, events |-> << <<>>, <<>> >>]

\* no routing run
NoRouted ==
    [op |-> "none", resource |-> "", id |-> "", url_prefix |-> <<>>, tokens |-> <<>>,
     done |-> FALSE, issued |-> <<>>]

OtherRunsIdle == opcall = NoOpCall /\ streams = NoStreams /\ routed = NoRouted

\* no transaction run
NoTxn ==
    [done |-> FALSE, headers |-> NoHeaders, response |-> Reply(0, NoHeader, <<>>, FALSE),
     before |-> 0, call |-> NoCall(""), result |-> Failed("", 0)]

----------------------------------------------------------------------------
(* Decoder runs: one payload, drawn from the texts below, is handed to     *)
(* _deserialize_response with one encoding.                                *)

Statuses == {PyStr(ok_chars), PyInt(<<"2", "0", "0">>), PyNone}

Results ==
    { PyList(<<One, Two, Three>>),
      PyList(<<>>),
      SamplePage,
      PyDict(<<>>, <<>>),
      PyDict(<<status_key, results_key>>, <<PyStr(ok_chars), SamplePage>>),
      PyStr(<<>>),
      PyStr(status_key \o <<" ">> \o results_key),
      One,
      PyNone }

EnvelopeStyles == {"compact", "spaced", "results_first"}

EnvelopeWires ==
    { [envelope |-> TRUE, status |-> st, results |-> r, text |-> Envelope(st, r, style)] :
        st \in Statuses, r \in Results, style \in EnvelopeStyles }

\* payloads that are not a JSON object with both a status and a results member
PlainTexts ==
    { <<>>,
      <<"<", "h", "t", "m", "l", ">">>,
      <<"{">> \o Quoted(status_key) \o <<":">>,
      toProtobufString(SamplePage),
      <<"1">>,
      <<"t", "r", "u", "e">>,
      <<"n", "u", "l", "l">>,
      Quoted(ok_chars),
      Quoted(status_key \o <<" ">> \o results_key),
      <<"[", "1", ",", "2", ",", "3", "]">>,
      <<"[", "]">>,
      <<"[">> \o Quoted(status_key) \o <<",">> \o Quoted(results_key) \o <<"]">>,
      <<"{", "}">>,
      <<"{">> \o Quoted(status_key) \o <<":">> \o Quoted(ok_chars) \o <<"}">>,
      <<"{">> \o Quoted(results_key) \o <<":", "[", "1", "]", "}">>,
      Serialize(SamplePage, <<",">>, <<":">>) }

PlainWires ==
    { [envelope |-> FALSE, status |-> PyNone, results |-> PyNone, text |-> x] :
        x \in PlainTexts }

ContentTypes == {JSON_MIME, PROTOBUF_MIME, "text/html"}

Pending == Outcome("pending", NoObject, 0, <<>>, "")

InitDecode ==
    /\ wire \in EnvelopeWires \cup PlainWires
    /\ content_type \in ContentTypes
    /\ outcome = Pending
    /\ _protocol_bytes_received = 0
    /\ transport = "Local"
    /\ _serialization = AbstractClient_init(PROTOBUF_MIME)
    /\ _id_token = PyNone /\ _session_headers = NoHeaders
    /\ _page_size = PyNone
    /\ gen = NoGenerator /\ lrb = NoBasesCall /\ getc = NoGetCall /\ trips = 0
    /\ log = NoLog /\ txn = NoTxn /\ pair = NoPair
    /\ OtherRunsIdle

Deserialize ==
    /\ outcome = Pending
    /\ outcome' = _deserialize_response(_protocol_bytes_received, wire.text, content_type)
    /\ _protocol_bytes_received' = outcome'.bytes
    /\ UNCHANGED <<wire, content_type, client, gen, lrb, getc, trips, log, txn, pair,
                   other_runs>>

NextDecode == Deserialize

SpecDecode == InitDecode /\ [][NextDecode]_vars

----------------------------------------------------------------------------
(* The client at work.  The caller is one thread: while a transport call   *)
(* is under way it is inside that call and starts nothing else.  What the  *)
(* serving side answers is not the client's to choose: every reply is      *)
(* drawn from the replies below.                                           *)

MaxRoundTrips == 3

MaxStops == 2

\* a client whose page size was changed is followed over shorter runs
MaxPagedTrips == 2

TripLimit == IF _page_size = PyNone THEN MaxRoundTrips ELSE MaxPagedTrips

NoWire == [envelope |-> FALSE, status |-> PyNone, results |-> PyNone, text |-> <<>>]

\* the sizes a caller asks for
PageSizes == {Two}

Init ==
    /\ transport \in Kinds
    /\ _id_token = PyNone
    /\ \E requested \in RequestedSerializations :
        /\ _serialization = IF transport = "Remote"
                             THEN HttpClient_init(requested)
                             ELSE LocalClient_init(requested)
        /\ _session_headers = SessionHeaders(transport, requested, _id_token)
    /\ _page_size = PyNone
    /\ _protocol_bytes_received = 0
    /\ gen = NoGenerator
    /\ lrb = NoBasesCall
    /\ getc = NoGetCall
    /\ trips = 0
    /\ log = NoLog
    /\ wire = NoWire /\ content_type = "" /\ outcome = Pending /\ txn = NoTxn
    /\ pair = NoPair
    /\ OtherRunsIdle

\* no transport call is under way: the caller is free to make a call
CallerFree == gen.pc # "AWAIT_PAGE" /\ lrb.pc # "AWAIT_PAGE" /\ getc.pc # "AWAIT"

\* search_datasets(): the request is built, the generator returned
search_datasets ==
    /\ CallerFree
    /\ gen' = Generator(_page_size)
    /\ UNCHANGED <<client, _protocol_bytes_received, lrb, getc, trips, log, decoder_run>>

\* set_page_size(page_size)
set_page_size ==
    /\ CallerFree
    /\ trips <= MaxPagedTrips
    /\ \E page_size \in PageSizes : _page_size' = page_size
    /\ UNCHANGED <<transport, _serialization, _id_token, _session_headers,
                   _protocol_bytes_received, gen, lrb, getc,
                   trips, log, decoder_run>>

\* the caller asks the generator for its next element
next_element ==
    /\ CallerFree
    /\ gen.pc # "none"
    /\ gen' = _run_search_request_next(gen)
    /\ gen'.stops <= MaxStops
    /\ trips' = trips + Len(gen'.sent) - Len(gen.sent)
    /\ trips' <= TripLimit
    /\ UNCHANGED <<client, _protocol_bytes_received, lrb, getc, log, decoder_run>>

\* the page request of the generator comes back
search_page_response ==
    /\ gen.pc = "AWAIT_PAGE"
    /\ \E reply \in SearchReplies[transport, _serialization] :
        LET result == _run_search_page_request(transport, _protocol_bytes_received,
                                               _serialization, reply)
        IN  /\ gen' = _run_search_request_page(gen, result)
            /\ _protocol_bytes_received' = result.bytes
            /\ log' = Logged(log, DecoderCall(transport, _serialization, reply), reply,
                             result)
    /\ gen'.stops <= MaxStops
    /\ trips' = trips + Len(gen'.sent) - Len(gen.sent)
    /\ trips' <= TripLimit
    /\ UNCHANGED <<client, lrb, getc, decoder_run>>

\* list_reference_bases(id_) is called
list_reference_bases ==
    /\ CallerFree
    /\ trips < TripLimit
    /\ lrb' = list_reference_bases_enter
    /\ trips' = trips + 1
    /\ UNCHANGED <<client, _protocol_bytes_received, gen, getc, log, decoder_run>>

\* the page request of list_reference_bases comes back
list_reference_bases_response ==
    /\ lrb.pc = "AWAIT_PAGE"
    /\ \E reply \in BasesReplies[transport, _serialization] :
        LET result == _run_list_reference_bases_page_request(
                          transport, _protocol_bytes_received, _serialization, reply)
        IN  /\ lrb' = list_reference_bases_page(lrb, result)
            /\ _protocol_bytes_received' = result.bytes
            /\ log' = Logged(log, DecoderCall(transport, _serialization, reply), reply,
                             result)
    /\ trips' = trips + Len(lrb'.sent) - Len(lrb.sent)
    /\ trips' <= TripLimit
    /\ UNCHANGED <<client, gen, getc, decoder_run>>

\* get_dataset(dataset_id) is called
get_dataset ==
    /\ CallerFree
    /\ trips < TripLimit
    /\ getc' = _run_get_request_enter
    /\ trips' = trips + 1
    /\ UNCHANGED <<client, _protocol_bytes_received, gen, lrb, log, decoder_run>>

\* the transport call of the get comes back
get_response ==
    /\ getc.pc = "AWAIT"
    /\ \E reply \in GetReplies[transport, _serialization] :
        LET result == _run_get_request(transport, _protocol_bytes_received,
                                       _serialization, reply)
        IN  /\ getc' = _run_get_request_leave(getc, result)
            /\ _protocol_bytes_received' = result.bytes
            /\ log' = Logged(log, DecoderCall(transport, _serialization, reply), reply,
                             result)
    /\ trips' = trips + getc'.calls - getc.calls
    /\ trips' <= TripLimit
    /\ UNCHANGED <<client, gen, lrb, decoder_run>>

Next ==
    \/ set_page_size
    \/ search_datasets
    \/ next_element
    \/ search_page_response
    \/ list_reference_bases
    \/ list_reference_bases_response
    \/ get_dataset
    \/ get_response

Spec == Init /\ [][Next]_vars

----------------------------------------------------------------------------
(* Transaction runs: one client, one transport call and what came back,   *)
(* followed from the reply to the end of the transaction.                 *)
(*   headers    the headers the request left with                         *)
(*   response   what came back                                            *)
(*   before     the received-byte counter when it came back               *)
(*   call       what was handed to _deserialize_response                  *)
(*   result     how the transaction ended                                 *)

\* the status codes a server answers with
StatusCodes == {200, 201, 204, 404, 500}

\* what can come back to a transaction of the client
TransactionReplies(kind, serialization) ==
    LET replies == SearchReplies[kind, serialization] \cup BasesReplies[kind, serialization]
                   \cup GetReplies[kind, serialization]
    IN  IF kind = "Remote"
        THEN { [r EXCEPT !.status_code = c] : r \in replies, c \in StatusCodes }
        ELSE replies

\* the counter before the transaction: nothing received yet, or one page
PriorBytes == {0, Len(serialize(SamplePage, JSON_MIME))}

InitTransaction ==
    /\ transport \in Kinds
    /\ _id_token \in IF transport = "Remote" THEN IdTokens ELSE {PyNone}
    /\ \E requested \in RequestedSerializations :
        /\ _serialization = IF transport = "Remote"
                             THEN HttpClient_init(requested)
                             ELSE LocalClient_init(requested)
        /\ _session_headers = SessionHeaders(transport, requested, _id_token)
    /\ _page_size = PyNone
    /\ _protocol_bytes_received \in PriorBytes
    /\ \E response \in TransactionReplies(transport, _serialization) :
           txn = [NoTxn EXCEPT !.headers = _session_headers, !.response = response,
                               !.before = _protocol_bytes_received]
    /\ gen = NoGenerator /\ lrb = NoBasesCall /\ getc = NoGetCall /\ trips = 1
    /\ log = NoLog
    /\ wire = NoWire /\ content_type = "" /\ outcome = Pending /\ pair = NoPair
    /\ OtherRunsIdle

\* the transaction runs from the reply to its end
Transact ==
    /\ ~txn.done
    /\ txn' = [txn EXCEPT !.done = TRUE,
                          !.call = DecoderCall(transport, _serialization, txn.response),
                          !.result = Transaction(transport, _protocol_bytes_received,
                                                 _serialization, txn.response)]
    /\ _protocol_bytes_received' = txn'.result.bytes
    /\ UNCHANGED <<client, gen, lrb, getc, trips, log, wire, content_type, outcome, pair,
                   other_runs>>

NextTransaction == Transact

SpecTransaction == InitTransaction /\ [][NextTransaction]_vars

----------------------------------------------------------------------------
(* Paired runs: an HttpClient and a LocalClient built with the same        *)
(* requested encoding run the same operation side by side over the same    *)
(* backend: each page the backend produces reaches the HttpClient as the   *)
(* server's response and the LocalClient as the backend's string.          *)
(*   op   "search", "accumulate" or "get"                                  *)
(*   remote, local   the state of the call in each client                  *)

Operations == {"search", "accumulate", "get"}

\* the operation is called in a client
Called(op) ==
    IF op = "search" THEN Generator(PyNone)
    ELSE IF op = "accumulate" THEN list_reference_bases_enter
    ELSE _run_get_request_enter

\* the messages the backend can produce for the operation
BackendMessages(op) ==
    IF op = "search" THEN { SearchResponse(e, t) : e \in PageLists, t \in SearchTokens }
    ELSE IF op = "accumulate"
        THEN { ListReferenceBasesResponse(f, t) : f \in Fragments, t \in BasesTokens }
    ELSE GetMessages

\* a message of the backend as the transport of a client hands it over
Served(kind, serialization, msg) ==
    IF kind = "Remote"
    THEN Reply(HTTP_OK, Negotiated(serialization), serialize(msg, Negotiated(serialization)),
               FALSE)
    ELSE Reply(HTTP_OK, NoHeader, serialize(msg, Negotiated(serialization)), FALSE)

\* the call goes on with the result of its transaction
Continued(op, call, result) ==
    IF op = "search" THEN _run_search_request_page(call, result)
    ELSE IF op = "accumulate" THEN list_reference_bases_page(call, result)
    ELSE _run_get_request_leave(call, result)

\* a transport call is under way
Awaiting(call) == call.pc \in {"AWAIT_PAGE", "AWAIT"}

\* round trips of a call so far
RoundTrips(op, call) == IF op = "get" THEN call.calls ELSE Len(call.sent)

InitPair ==
    /\ pair \in { [op |-> op, requested |-> requested,
                   remote |-> Called(op), local |-> Called(op),
                   remote_bytes |-> 0, local_bytes |-> 0] :
                  op \in Operations, requested \in RequestedSerializations }
    /\ transport = "Local"
    /\ _serialization = AbstractClient_init(PROTOBUF_MIME)
    /\ _id_token = PyNone /\ _session_headers = NoHeaders
    /\ _page_size = PyNone
    /\ _protocol_bytes_received = 0
    /\ gen = NoGenerator /\ lrb = NoBasesCall /\ getc = NoGetCall /\ trips = 0
    /\ log = NoLog /\ txn = NoTxn
    /\ wire = NoWire /\ content_type = "" /\ outcome = Pending
    /\ OtherRunsIdle

\* the callers of both search streams ask for the next element
PairAsk ==
    /\ pair.op = "search"
    /\ ~Awaiting(pair.remote) /\ ~Awaiting(pair.local)
    /\ pair' = [pair EXCEPT !.remote = _run_search_request_next(@),
                            !.local = _run_search_request_next(@)]
    /\ pair'.remote.stops <= MaxStops /\ pair'.local.stops <= MaxStops
    /\ RoundTrips(pair.op, pair'.remote) <= MaxRoundTrips
    /\ RoundTrips(pair.op, pair'.local) <= MaxRoundTrips
    /\ UNCHANGED <<client, _protocol_bytes_received, gen, lrb, getc, trips, log, wire,
                   content_type, outcome, txn, other_runs>>

\* the backend produces a message for the request both clients have sent
PairServe ==
    /\ Awaiting(pair.remote) /\ Awaiting(pair.local)
    /\ \E msg \in BackendMessages(pair.op) :
        LET remote == HttpClient_init(pair.requested)
            local == LocalClient_init(pair.requested)
            remote_result == Transaction("Remote", pair.remote_bytes, remote,
                                         Served("Remote", remote, msg))
            local_result == Transaction("Local", pair.local_bytes, local,
                                        Served("Local", local, msg))
        IN  pair' = [pair EXCEPT !.remote = Continued(pair.op, @, remote_result),
                                 !.local = Continued(pair.op, @, local_result),
                                 !.remote_bytes = remote_result.bytes,
                                 !.local_bytes = local_result.bytes]
    /\ pair.op = "search" =>
           pair'.remote.stops <= MaxStops /\ pair'.local.stops <= MaxStops
    /\ RoundTrips(pair.op, pair'.remote) <= MaxRoundTrips
    /\ RoundTrips(pair.op, pair'.local) <= MaxRoundTrips
    /\ UNCHANGED <<client, _protocol_bytes_received, gen, lrb, getc, trips, log, wire,
                   content_type, outcome, txn, other_runs>>

NextPair == PairAsk \/ PairServe

SpecPair == InitPair /\ [][NextPair]_vars

----------------------------------------------------------------------------
(* Operation runs: the client's other operations, one call at a time.      *)
(*   opcall.op   "get_info", "announce", "list_peers" or "search_genotypes" *)
(*   opcall.st   the state of that call: a get call for get_info and        *)
(*               announce, the generator list_peers returned                *)

\* no transport call of an operation is under way
OperationFree == opcall.st.pc \notin {"AWAIT", "AWAIT_PAGE"}

\* get_info(): _run_get_request_path("info", ...) up to the transport call
get_info ==
    /\ OperationFree
    /\ trips < MaxRoundTrips
    /\ opcall' = [op |-> "get_info", st |-> [NoGetCall EXCEPT !.pc = "AWAIT", !.calls = 1]]
    /\ trips' = trips + 1
    /\ UNCHANGED <<client, _protocol_bytes_received, gen, lrb, getc, log, wire, content_type,
                   outcome, txn, pair, streams, routed>>

\* announce(url): _run_post_request(request, "announce", ...) up to the
\* transport call
announce ==
    /\ OperationFree
    /\ trips < MaxRoundTrips
    /\ opcall' = [op |-> "announce", st |-> [NoGetCall EXCEPT !.pc = "AWAIT", !.calls = 1]]
    /\ trips' = trips + 1
    /\ UNCHANGED <<client, _protocol_bytes_received, gen, lrb, getc, log, wire, content_type,
                   outcome, txn, pair, streams, routed>>

\* the transport call of get_info comes back: the decoded object is returned
get_info_response ==
    /\ opcall.op = "get_info" /\ opcall.st.pc = "AWAIT"
    /\ \E reply \in GetReplies[transport, _serialization] :
        LET result == _run_get_request_path(transport, "info", _protocol_bytes_received,
                                            _serialization, reply)
        IN  /\ opcall' = [opcall EXCEPT !.st =
                   IF result.raised # "" THEN [@ EXCEPT !.pc = "RAISED", !.raised = result.raised]
                   ELSE [@ EXCEPT !.pc = "RETURNED", !.obj = result.obj]]
            /\ _protocol_bytes_received' = result.bytes
    /\ UNCHANGED <<client, gen, lrb, getc, trips, log, wire, content_type,
                   outcome, txn, pair, streams, routed>>

\* the transport call of announce comes back: the decoded object is returned
announce_response ==
    /\ opcall.op = "announce" /\ opcall.st.pc = "AWAIT"
    /\ \E reply \in GetReplies[transport, _serialization] :
        LET result == _run_post_request(transport, "announce", _protocol_bytes_received,
                                        _serialization, reply)
        IN  /\ opcall' = [opcall EXCEPT !.st =
                   IF result.raised # "" THEN [@ EXCEPT !.pc = "RAISED", !.raised = result.raised]
                   ELSE [@ EXCEPT !.pc = "RETURNED", !.obj = result.obj]]
            /\ _protocol_bytes_received' = result.bytes
    /\ UNCHANGED <<client, gen, lrb, getc, trips, log, wire, content_type,
                   outcome, txn, pair, streams, routed>>

\* list_peers(): the request is built, the generator of _run_list_request
\* returned
list_peers ==
    /\ OperationFree
    /\ opcall' = [op |-> "list_peers", st |-> Generator(PyNone)]
    /\ UNCHANGED <<client, _protocol_bytes_received, gen, lrb, getc, trips, log, wire,
                   content_type, outcome, txn, pair, streams, routed>>

\* the caller asks the generator of list_peers for its next element
next_peer ==
    /\ opcall.op = "list_peers" /\ opcall.st.pc # "AWAIT_PAGE"
    /\ opcall' = [opcall EXCEPT !.st = _run_list_request_next(@)]
    /\ opcall'.st.stops <= MaxStops
    /\ trips' = trips + Len(opcall'.st.sent) - Len(opcall.st.sent)
    /\ trips' <= MaxRoundTrips
    /\ UNCHANGED <<client, _protocol_bytes_received, gen, lrb, getc, log, wire, content_type,
                   outcome, txn, pair, streams, routed>>

\* the page request of the generator of list_peers comes back
list_peers_response ==
    /\ opcall.op = "list_peers" /\ opcall.st.pc = "AWAIT_PAGE"
    /\ \E reply \in PeersReplies[transport, _serialization] :
        LET result == _run_http_post_request(transport, "peers/list",
                                             _protocol_bytes_received, _serialization, reply)
        IN  /\ opcall' = [opcall EXCEPT !.st = _run_list_request_page(@, result)]
            /\ _protocol_bytes_received' = result.bytes
    /\ opcall'.st.stops <= MaxStops
    /\ trips' = trips + Len(opcall'.st.sent) - Len(opcall.st.sent)
    /\ trips' <= MaxRoundTrips
    /\ UNCHANGED <<client, gen, lrb, getc, log, wire, content_type,
                   outcome, txn, pair, streams, routed>>

\* search_genotypes(variant_set_id, ...) is called
search_genotypes ==
    /\ OperationFree
    /\ trips < MaxRoundTrips
    /\ opcall' = [op |-> "search_genotypes", st |-> search_genotypes_enter]
    /\ trips' = trips + 1
    /\ UNCHANGED <<client, _protocol_bytes_received, gen, lrb, getc, log, wire, content_type,
                   outcome, txn, pair, streams, routed>>

\* a page request of search_genotypes comes back
search_genotypes_response ==
    /\ opcall.op = "search_genotypes" /\ opcall.st.pc = "AWAIT_PAGE"
    /\ \E reply \in GenotypesReplies[transport, _serialization] :
        LET result == _run_search_page_request(transport, _protocol_bytes_received,
                                               _serialization, reply)
        IN  /\ opcall' = [opcall EXCEPT !.st = search_genotypes_page(@, result)]
            /\ _protocol_bytes_received' = result.bytes
    /\ trips' = trips + Len(opcall'.st.sent) - Len(opcall.st.sent)
    /\ trips' <= MaxRoundTrips
    /\ UNCHANGED <<client, gen, lrb, getc, log, wire, content_type,
                   outcome, txn, pair, streams, routed>>

NextOperations ==
    \/ search_genotypes
    \/ search_genotypes_response
    \/ get_info
    \/ get_info_response
    \/ announce
    \/ announce_response
    \/ list_peers
    \/ next_peer
    \/ list_peers_response

SpecOperations == Init /\ [][NextOperations]_vars

----------------------------------------------------------------------------
(* Runs to the end: one Search or one Accumulate call against a server     *)
(* that fails no call and returns an empty nextPageToken on its            *)
(* MaxRoundTrips-th page at the latest.  The caller of a search keeps       *)
(* asking for the next element, and a transport call under way returns.    *)

\* the replies to request number n that end without an exception
ServedWithoutFailure(replies, n) ==
    { r \in replies :
        LET result == Transaction(transport, _protocol_bytes_received, _serialization, r)
        IN  /\ result.raised = ""
            /\ n >= MaxRoundTrips => next_page_token(result.obj) = <<>> }

\* search_datasets() is called, once
search_once ==
    /\ gen.pc = "none" /\ lrb.pc = "none"
    /\ gen' = Generator(_page_size)
    /\ UNCHANGED <<client, _protocol_bytes_received, lrb, getc, trips, log, decoder_run>>

\* list_reference_bases(id_) is called, once
accumulate_once ==
    /\ gen.pc = "none" /\ lrb.pc = "none"
    /\ lrb' = list_reference_bases_enter
    /\ trips' = trips + 1
    /\ UNCHANGED <<client, _protocol_bytes_received, gen, getc, log, decoder_run>>

\* the caller asks the generator for its next element
request_element ==
    /\ gen.pc \notin {"none", "AWAIT_PAGE"}
    /\ gen' = _run_search_request_next(gen)
    /\ gen'.stops <= MaxStops
    /\ trips' = trips + Len(gen'.sent) - Len(gen.sent)
    /\ UNCHANGED <<client, _protocol_bytes_received, lrb, getc, log, decoder_run>>

\* the page request of the generator returns
page_served ==
    /\ gen.pc = "AWAIT_PAGE"
    /\ \E reply \in ServedWithoutFailure(SearchReplies[transport, _serialization],
                                          Len(gen.sent)) :
        LET result == _run_search_page_request(transport, _protocol_bytes_received,
                                               _serialization, reply)
        IN  /\ gen' = _run_search_request_page(gen, result)
            /\ _protocol_bytes_received' = result.bytes
    /\ trips' = trips + Len(gen'.sent) - Len(gen.sent)
    /\ UNCHANGED <<client, lrb, getc, log, decoder_run>>

\* the page request of list_reference_bases returns
bases_served ==
    /\ lrb.pc = "AWAIT_PAGE"
    /\ \E reply \in ServedWithoutFailure(BasesReplies[transport, _serialization],
                                          Len(lrb.sent)) :
        LET result == _run_list_reference_bases_page_request(
                          transport, _protocol_bytes_received, _serialization, reply)
        IN  /\ lrb' = list_reference_bases_page(lrb, result)
            /\ _protocol_bytes_received' = result.bytes
    /\ trips' = trips + Len(lrb'.sent) - Len(lrb.sent)
    /\ UNCHANGED <<client, gen, getc, log, decoder_run>>

NextToTheEnd ==
    \/ search_once
    \/ accumulate_once
    \/ request_element
    \/ page_served
    \/ bases_served

\* the caller keeps asking; a transport call that fails does so by raising,
\* and none fails here, so each one returns
SpecToTheEnd ==
    /\ Init
    /\ [][NextToTheEnd]_vars
    /\ WF_vars(request_element)
    /\ WF_vars(page_served)
    /\ WF_vars(bases_served)

----------------------------------------------------------------------------
(* Runs without end: one Search or one Accumulate call against a server    *)
(* that fails no call and returns a non-empty nextPageToken on every page  *)
(* it serves.  The server serves the first MaxRoundTrips page requests;    *)
(* what it does with later ones is left open.  The caller of a search      *)
(* keeps asking for the next element.                                      *)

\* the replies that end without an exception and carry a nextPageToken
ServedWithToken(replies) ==
    { r \in replies :
        LET result == Transaction(transport, _protocol_bytes_received, _serialization, r)
        IN  result.raised = "" /\ next_page_token(result.obj) # <<>> }

\* the page request of the generator returns
page_served_endlessly ==
    /\ gen.pc = "AWAIT_PAGE"
    /\ Len(gen.sent) <= MaxRoundTrips
    /\ \E reply \in ServedWithToken(SearchReplies[transport, _serialization]) :
        LET result == _run_search_page_request(transport, _protocol_bytes_received,
                                               _serialization, reply)
        IN  /\ gen' = _run_search_request_page(gen, result)
            /\ _protocol_bytes_received' = result.bytes
    /\ trips' = trips + Len(gen'.sent) - Len(gen.sent)
    /\ UNCHANGED <<client, lrb, getc, log, decoder_run>>

\* the page request of list_reference_bases returns
bases_served_endlessly ==
    /\ lrb.pc = "AWAIT_PAGE"
    /\ Len(lrb.sent) <= MaxRoundTrips
    /\ \E reply \in ServedWithToken(BasesReplies[transport, _serialization]) :
        LET result == _run_list_reference_bases_page_request(
                          transport, _protocol_bytes_received, _serialization, reply)
        IN  /\ lrb' = list_reference_bases_page(lrb, result)
            /\ _protocol_bytes_received' = result.bytes
    /\ trips' = trips + Len(lrb'.sent) - Len(lrb.sent)
    /\ UNCHANGED <<client, gen, getc, log, decoder_run>>

NextWithoutEnd ==
    \/ search_once
    \/ accumulate_once
    \/ request_element
    \/ page_served_endlessly
    \/ bases_served_endlessly

\* the caller keeps asking, and each of the page requests the server serves
\* returns
SpecWithoutEnd ==
    /\ Init
    /\ [][NextWithoutEnd]_vars
    /\ WF_vars(request_element)
    /\ WF_vars(page_served_endlessly)
    /\ WF_vars(bases_served_endlessly)

----------------------------------------------------------------------------
(* Two streams: two search calls on one client, the caller asking either   *)
(* generator for its next element in any order.                            *)
(*   streams.g[i]       generator i                                        *)
(*   streams.handed[i]  the lengths, summed, of the payloads of stream i   *)
(*                      that were handed to the decoder                    *)
(*   streams.events[i]  what happened to stream i, in order: the caller's  *)
(*                      requests and the results of its page requests      *)

\* round trips of both streams together
MaxStreamTrips == 3

MaxStreamStops == 1

\* a request of the caller for an element, and the result of a page
\* request (the decoded response, or the exception), as events
Asked == [asked |-> TRUE, raised |-> "", obj |-> NoObject]

Replied(result) == [asked |-> FALSE, raised |-> result.raised, obj |-> result.obj]

\* next() on generator i, the request object of both search calls being one
stream_next_shared_request(gs, i) ==
    [gs EXCEPT ![i] = _run_search_request_next([@ EXCEPT !.page_token = gs[3 - i].page_token])]

\* next() on generator i: each generator runs in its own frame, over the
\* request its search call built
stream_next(gs, i) == [gs EXCEPT ![i] = _run_search_request_next(@)]

\* the page request of generator i returns
stream_page(gs, i, result) == [gs EXCEPT ![i] = _run_search_request_page(@, result)]

\* no page request is under way: the caller is outside the generators
StreamsFree == \A i \in 1..2 : streams.g[i].pc # "AWAIT_PAGE"

\* one of the two search calls is made
stream_search ==
    /\ StreamsFree
    /\ \E i \in 1..2 :
        /\ streams.g[i].pc = "none"
        /\ streams' = [streams EXCEPT !.g[i] = Generator(_page_size)]
    /\ UNCHANGED <<client, _protocol_bytes_received, gen, lrb, getc, trips, log, wire,
                   content_type, outcome, txn, pair, opcall, routed>>

\* the caller asks one of the generators for its next element
stream_request ==
    /\ StreamsFree
    /\ \E i \in 1..2 :
        /\ streams.g[i].pc # "none"
        /\ streams' = [streams EXCEPT !.g = stream_next(@, i),
                                      !.events[i] = Append(@, Asked)]
        /\ streams'.g[i].stops <= MaxStreamStops
        /\ trips' = trips + Len(streams'.g[i].sent) - Len(streams.g[i].sent)
        /\ trips' <= MaxStreamTrips
    /\ UNCHANGED <<client, _protocol_bytes_received, gen, lrb, getc, log, wire,
                   content_type, outcome, txn, pair, opcall, routed>>

\* the page request of a generator comes back
stream_response ==
    \E i \in 1..2 :
        /\ streams.g[i].pc = "AWAIT_PAGE"
        /\ \E reply \in SearchReplies[transport, _serialization] :
            LET result == _run_search_page_request(transport, _protocol_bytes_received,
                                                   _serialization, reply)
                call_ == DecoderCall(transport, _serialization, reply)
            IN  /\ streams' = [streams EXCEPT
                                  !.g = stream_page(@, i, result),
                                  !.handed[i] = @ + (IF call_.called THEN Len(reply.text) ELSE 0),
                                  !.events[i] = Append(@, Replied(result))]
                /\ _protocol_bytes_received' = result.bytes
        /\ streams'.g[i].stops <= MaxStreamStops
        /\ trips' = trips + Len(streams'.g[i].sent) - Len(streams.g[i].sent)
        /\ trips' <= MaxStreamTrips
        /\ UNCHANGED <<client, gen, lrb, getc, log, wire,
                       content_type, outcome, txn, pair, opcall, routed>>

NextStreams ==
    \/ stream_search
    \/ stream_request
    \/ stream_response

SpecStreams == Init /\ [][NextStreams]_vars

----------------------------------------------------------------------------
(* Routing runs: one operation of a client, and the requests it issues.    *)
(* A URL is the sequence of its parts: a name, or the separator "/".        *)
(*   routed.op          "get", "search" or "accumulate"                     *)
(*   routed.resource    the object_name the operation passes               *)
(*   routed.id          the id of a get                                    *)
(*   routed.url_prefix  HttpClient._url_prefix                             *)
(*   routed.tokens      the page tokens the server will hand out           *)
(*   routed.issued      the HTTP requests sent or the backend methods      *)
(*                      invoked, in order                                  *)

\* LocalClient._get_method_map
_get_method_map ==
    [callsets |-> "runGetCallSet",
     datasets |-> "runGetDataset",
     referencesets |-> "runGetReferenceSet",
     references |-> "runGetReference",
     variantsets |-> "runGetVariantSet",
     featuresets |-> "runGetFeatureSet",
     continuoussets |-> "runGetContinuousSet",
     variants |-> "runGetVariant",
     features |-> "runGetFeature",
     readgroupsets |-> "runGetReadGroupSet",
     readgroups |-> "runGetReadGroup",
     variantannotationsets |-> "runGetVariantAnnotationSet",
     biosamples |-> "runGetBiosample",
     individuals |-> "runGetIndividual",
     experiments |-> "runGetExperiment",
     analyses |-> "runGetAnalysis",
     rnaquantificationsets |-> "runGetRnaQuantificationSet",
     rnaquantifications |-> "runGetRnaQuantification",
     expressionlevels |-> "runGetExpressionLevel"]

\* a search table built without the entry for genotypes
_search_method_map_without_genotypes ==
    [callsets |-> "runSearchCallSets",
     datasets |-> "runSearchDatasets",
     referencesets |-> "runSearchReferenceSets",
     references |-> "runSearchReferences",
     variantsets |-> "runSearchVariantSets",
     featuresets |-> "runSearchFeatureSets",
     continuoussets |-> "runSearchContinuousSets",
     variants |-> "runSearchVariants",
     features |-> "runSearchFeatures",
     continuous |-> "runSearchContinuous",
     readgroupsets |-> "runSearchReadGroupSets",
     reads |-> "runSearchReads",
     variantannotations |-> "runSearchVariantAnnotations",
     variantannotationsets |-> "runSearchVariantAnnotationSets",
     biosamples |-> "runSearchBiosamples",
     individuals |-> "runSearchIndividuals",
     experiments |-> "runSearchExperiments",
     analyses |-> "runSearchAnalyses",
     featurephenotypeassociations |-> "runSearchGenotypePhenotypes",
     phenotypes |-> "runSearchPhenotypes",
     phenotypeassociationsets |-> "runSearchPhenotypeAssociationSets",
     rnaquantificationsets |-> "runSearchRnaQuantificationSets",
     rnaquantifications |-> "runSearchRnaQuantifications",
     expressionlevels |-> "runSearchExpressionLevels"]

\* LocalClient._search_method_map
_search_method_map ==
    [callsets |-> "runSearchCallSets",
     datasets |-> "runSearchDatasets",
     referencesets |-> "runSearchReferenceSets",
     references |-> "runSearchReferences",
     variantsets |-> "runSearchVariantSets",
     featuresets |-> "runSearchFeatureSets",
     continuoussets |-> "runSearchContinuousSets",
     variants |-> "runSearchVariants",
     genotypes |-> "runSearchGenotypes",
     features |-> "runSearchFeatures",
     continuous |-> "runSearchContinuous",
     readgroupsets |-> "runSearchReadGroupSets",
     reads |-> "runSearchReads",
     variantannotations |-> "runSearchVariantAnnotations",
     variantannotationsets |-> "runSearchVariantAnnotationSets",
     biosamples |-> "runSearchBiosamples",
     individuals |-> "runSearchIndividuals",
     experiments |-> "runSearchExperiments",
     analyses |-> "runSearchAnalyses",
     featurephenotypeassociations |-> "runSearchGenotypePhenotypes",
     phenotypes |-> "runSearchPhenotypes",
     phenotypeassociationsets |-> "runSearchPhenotypeAssociationSets",
     rnaquantificationsets |-> "runSearchRnaQuantificationSets",
     rnaquantifications |-> "runSearchRnaQuantifications",
     expressionlevels |-> "runSearchExpressionLevels"]

\* the object_name of every get method of the client
GetResources ==
    {"biosamples", "individuals", "experiments", "analyses", "datasets",
     "referencesets", "references", "readgroupsets", "readgroups", "callsets",
     "variants", "variantsets", "variantannotationsets", "featuresets", "features",
     "continuoussets", "rnaquantificationsets", "rnaquantifications",
     "expressionlevels"}

\* the object_name of every search method of the client
SearchResources ==
    {"variants", "variantannotations", "features", "continuous", "datasets",
     "variantsets", "variantannotationsets", "featuresets", "continuoussets",
     "referencesets", "references", "callsets", "biosamples", "individuals",
     "experiments", "analyses", "readgroupsets", "reads", "phenotypeassociationsets",
     "featurephenotypeassociations", "phenotypes", "rnaquantificationsets",
     "rnaquantifications", "expressionlevels", "genotypes"}

page_token_key == <<"p", "a", "g", "e", "T", "o", "k", "e", "n">>

\* protocol.toJson(request), for a request whose page_token is token
toJson(token) == Serialize(SetFields(<<page_token_key>>, <<PyStr(token)>>), <<",">>, <<":">>)

\* posixpath.join(a, b)
posixpath_join(a, b) ==
    IF b # <<>> /\ Head(b) = "/" THEN b
    ELSE IF a = <<>> \/ a[Len(a)] = "/" THEN a \o b
    ELSE a \o <<"/">> \o b

\* a request as it leaves: through the HTTP session (method GET or POST, to
\* url, with data) or to the backend (method, with id or data, and encoding)
HttpRequest(method, url, data) ==
    [via |-> "session", method |-> method, url |-> url, id |-> "", data |-> data,
     serialization |-> ""]

BackendCall(method, id_, data, serialization) ==
    [via |-> "backend", method |-> method, url |-> <<>>, id |-> id_, data |-> data,
     serialization |-> serialization]

\* a table lookup of a name the table does not hold raises KeyError before
\* anything is called
KeyErrorRaised ==
    [via |-> "KeyError", method |-> "", url |-> <<>>, id |-> "", data |-> <<>>,
     serialization |-> ""]

\* a LocalClient that looks every object_name up in the search table
LocalClient_get_issue_search_table(object_name, id_, serialization) ==
    IF object_name \notin DOMAIN _search_method_map THEN KeyErrorRaised
    ELSE BackendCall(_search_method_map[object_name], id_, <<>>, serialization)

\* HttpClient._run_get_request up to the call of the session
HttpClient_get_issue(url_prefix, object_name, id_) ==
    HttpRequest("GET", posixpath_join(url_prefix, <<object_name, "/", id_>>), <<>>)

\* LocalClient._run_get_request up to the call of the backend
LocalClient_get_issue(object_name, id_, serialization) ==
    IF object_name \notin DOMAIN _get_method_map THEN KeyErrorRaised
    ELSE BackendCall(_get_method_map[object_name], id_, <<>>, serialization)

\* HttpClient._run_search_page_request up to the call of the session
HttpClient_search_issue(url_prefix, object_name, token) ==
    HttpRequest("POST", posixpath_join(url_prefix, <<object_name, "/", "search">>),
                toJson(token))

\* LocalClient._run_search_page_request up to the call of the backend
LocalClient_search_issue(object_name, token, serialization) ==
    IF object_name \notin DOMAIN _search_method_map THEN KeyErrorRaised
    ELSE BackendCall(_search_method_map[object_name], "", toJson(token), serialization)

\* HttpClient._run_list_reference_bases_page_request up to the call of the
\* session
HttpClient_bases_issue(url_prefix, token) ==
    HttpRequest("POST", posixpath_join(url_prefix, <<"listreferencebases">>), toJson(token))

\* LocalClient._run_list_reference_bases_page_request up to the call of the
\* backend
LocalClient_bases_issue(token, serialization) ==
    BackendCall("runListReferenceBases", "", toJson(token), serialization)

\* the request one round trip of the operation issues
Issued(kind, serialization, r, token) ==
    IF r.op = "get"
        THEN IF kind = "Remote" THEN HttpClient_get_issue(r.url_prefix, r.resource, r.id)
             ELSE LocalClient_get_issue(r.resource, r.id, serialization)
    ELSE IF r.op = "search"
        THEN IF kind = "Remote" THEN HttpClient_search_issue(r.url_prefix, r.resource, token)
             ELSE LocalClient_search_issue(r.resource, token, serialization)
    ELSE IF kind = "Remote" THEN HttpClient_bases_issue(r.url_prefix, token)
         ELSE LocalClient_bases_issue(token, serialization)

\* the url prefixes a client is built with
UrlPrefixes == {<<"http://host">>, <<"http://host", "/">>, <<"http://host", "/", "v1">>}

Ids == {"id1", "id2"}

\* the tokens of the pages that follow the first
TokenRuns == {<<>>, <<tok1>>}

InitRoute ==
    /\ transport \in Kinds
    /\ _id_token = PyNone
    /\ \E requested \in {JSON_MIME, PROTOBUF_MIME} :
        /\ _serialization = IF transport = "Remote"
                             THEN HttpClient_init(requested)
                             ELSE LocalClient_init(requested)
        /\ _session_headers = SessionHeaders(transport, requested, _id_token)
    /\ _page_size = PyNone
    /\ _protocol_bytes_received = 0
    /\ gen = NoGenerator /\ lrb = NoBasesCall /\ getc = NoGetCall /\ trips = 0
    /\ log = NoLog
    /\ wire = NoWire /\ content_type = "" /\ outcome = Pending /\ txn = NoTxn
    /\ pair = NoPair
    /\ opcall = NoOpCall /\ streams = NoStreams
    /\ routed \in
         { [NoRouted EXCEPT !.op = "get", !.resource = r, !.id = i, !.url_prefix = u] :
             r \in GetResources, i \in Ids,
             u \in IF transport = "Remote" THEN UrlPrefixes ELSE {<<>>} }
         \cup
         { [NoRouted EXCEPT !.op = "search", !.resource = r, !.url_prefix = u, !.tokens = t] :
             r \in SearchResources, t \in TokenRuns,
             u \in IF transport = "Remote" THEN UrlPrefixes ELSE {<<>>} }
         \cup
         { [NoRouted EXCEPT !.op = "accumulate", !.url_prefix = u, !.tokens = t] :
             t \in TokenRuns,
             u \in IF transport = "Remote" THEN UrlPrefixes ELSE {<<>>} }

\* the operation is called: its first request leaves
Route ==
    /\ routed.issued = <<>>
    /\ routed' = [routed EXCEPT
                     !.issued = <<Issued(transport, _serialization, routed, <<>>)>>,
                     !.done = routed.tokens = <<>>]
    /\ trips' = trips + 1
    /\ UNCHANGED <<client, _protocol_bytes_received, gen, lrb, getc, log, wire,
                   content_type, outcome, txn, pair, opcall, streams>>

\* a page came back with a token: the request for the next page leaves
RouteNextPage ==
    /\ routed.issued # <<>> /\ ~routed.done
    /\ routed' = [routed EXCEPT
                     !.issued = Append(@, Issued(transport, _serialization, routed,
                                                 Head(routed.tokens))),
                     !.tokens = Tail(@),
                     !.done = Tail(routed.tokens) = <<>>]
    /\ trips' = trips + 1
    /\ UNCHANGED <<client, _protocol_bytes_received, gen, lrb, getc, log, wire,
                   content_type, outcome, txn, pair, opcall, streams>>

NextRoute ==
    \/ Route
    \/ RouteNextPage

SpecRoute == InitRoute /\ [][NextRoute]_vars

----------------------------------------------------------------------------
(* Path runs: one call of a path-based primitive, _run_http_get_request    *)
(* or _run_http_post_request, with one path.                               *)
(*   routed.op        "get_path" or "post_path"                            *)
(*   routed.resource  the path                                             *)
(*   routed.issued    the HTTP request sent or the backend method invoked  *)
(*   txn.call         what was handed to _deserialize_response, if anything *)
(*   txn.result       how the primitive ended                              *)

\* the paths the facade passes, and some it does not
Paths == {"info", "announce", "peers/list", "peers", "datasets/search"}

\* _run_http_get_request up to the call of the session or of the backend;
\* the path is one part of the URL
path_get_issue(kind, url_prefix, path, serialization) ==
    IF kind = "Remote" THEN <<HttpRequest("GET", posixpath_join(url_prefix, <<path>>), <<>>)>>
    ELSE IF path = "info" THEN <<BackendCall("runGetInfo", "", <<>>, serialization)>>
    ELSE <<>>

\* _run_http_post_request up to the call of the session or of the backend
path_post_issue(kind, url_prefix, path, data) ==
    IF kind = "Remote" THEN <<HttpRequest("POST", posixpath_join(url_prefix, <<path>>), data)>>
    ELSE IF path = "announce" THEN <<BackendCall("runAddAnnouncement", "", data, "")>>
    ELSE IF path = "peers/list" THEN <<BackendCall("runListPeers", "", data, "")>>
    ELSE <<>>

\* what _run_http_get_request hands to _deserialize_response
path_get_call(kind, path, serialization, response) ==
    IF kind = "Remote" THEN HttpClient_call(serialization, response)
    ELSE IF path = "info" THEN LocalClient_call(serialization, response)
    ELSE NoCall("TypeError")

\* what _run_http_post_request hands to _deserialize_response
path_post_call(kind, path, serialization, response) ==
    IF kind = "Remote" THEN HttpClient_call(serialization, response)
    ELSE IF path \in {"announce", "peers/list"} THEN LocalClient_call(serialization, response)
    ELSE NoCall("TypeError")

InitPaths ==
    /\ transport \in Kinds
    /\ _id_token = PyNone
    /\ \E requested \in {JSON_MIME, PROTOBUF_MIME} :
        /\ _serialization = IF transport = "Remote"
                             THEN HttpClient_init(requested)
                             ELSE LocalClient_init(requested)
        /\ _session_headers = SessionHeaders(transport, requested, _id_token)
    /\ _page_size = PyNone
    /\ _protocol_bytes_received \in PriorBytes
    /\ gen = NoGenerator /\ lrb = NoBasesCall /\ getc = NoGetCall /\ trips = 0
    /\ log = NoLog
    /\ wire = NoWire /\ content_type = "" /\ outcome = Pending
    /\ pair = NoPair
    /\ opcall = NoOpCall /\ streams = NoStreams
    /\ \E response \in GetReplies[transport, _serialization]
                         \cup PeersReplies[transport, _serialization] :
           txn = [NoTxn EXCEPT !.headers = _session_headers, !.response = response,
                               !.before = _protocol_bytes_received]
    /\ \E op \in {"get_path", "post_path"}, path \in Paths :
           routed = [NoRouted EXCEPT
                        !.op = op, !.resource = path,
                        !.url_prefix = IF transport = "Remote" THEN <<"http://host">>
                                       ELSE <<>>]

\* _run_http_get_request(path, protocol_response_class)
path_get ==
    /\ routed.op = "get_path" /\ ~txn.done
    /\ routed' = [routed EXCEPT
                     !.issued = path_get_issue(transport, routed.url_prefix,
                                               routed.resource, _serialization),
                     !.done = TRUE]
    /\ txn' = [txn EXCEPT
                  !.done = TRUE,
                  !.call = path_get_call(transport, routed.resource, _serialization,
                                         txn.response),
                  !.result = _run_http_get_request(transport, routed.resource,
                                                   _protocol_bytes_received,
                                                   _serialization, txn.response)]
    /\ _protocol_bytes_received' = txn'.result.bytes
    /\ trips' = trips + Len(routed'.issued)
    /\ UNCHANGED <<client, gen, lrb, getc, log, wire, content_type, outcome, pair,
                   opcall, streams>>

\* _run_http_post_request(protocol_request, path, protocol_response_class)
path_post ==
    /\ routed.op = "post_path" /\ ~txn.done
    /\ routed' = [routed EXCEPT
                     !.issued = path_post_issue(transport, routed.url_prefix,
                                                routed.resource, toJson(<<>>)),
                     !.done = TRUE]
    /\ txn' = [txn EXCEPT
                  !.done = TRUE,
                  !.call = path_post_call(transport, routed.resource, _serialization,
                                          txn.response),
                  !.result = _run_http_post_request(transport, routed.resource,
                                                    _protocol_bytes_received,
                                                    _serialization, txn.response)]
    /\ _protocol_bytes_received' = txn'.result.bytes
    /\ trips' = trips + Len(routed'.issued)
    /\ UNCHANGED <<client, gen, lrb, getc, log, wire, content_type, outcome, pair,
                   opcall, streams>>

NextPaths ==
    \/ path_get
    \/ path_post

SpecPaths == InitPaths /\ [][NextPaths]_vars

----------------------------------------------------------------------------
(* Properties of the pagination engine and of get, checked under Spec.    *)
(* sent and pages are the history of a call: the page token of each       *)
(* request that left, and what each decoded response held.                *)

RECURSIVE Elements(_)
\* the elements of a sequence of pages, page after page
Elements(pages) ==
    IF pages = <<>> THEN <<>> ELSE Head(pages).elements \o Elements(Tail(pages))

\* the fragments of a sequence of pages, in arrival order
Sequences(pages) == [k \in 1..Len(pages) |-> pages[k].sequence]

\* all pages but the last carry a token, the last carries none
LastPageOnly(pages) ==
    /\ Len(pages) >= 1
    /\ \A k \in 1..(Len(pages) - 1) : pages[k].token # <<>>
    /\ pages[Len(pages)].token = <<>>

\* C1: a search stream consumed to its end was served n >= 1 pages of which
\* only the last has an empty nextPageToken; it made exactly n round trips
\* and yielded the elements of page 1, then page 2, ... then page n, each
\* once and in order.
C1_SearchYieldsEveryPageInOrder ==
    gen.pc = "DONE" =>
        /\ LastPageOnly(gen.pages)
        /\ Len(gen.sent) = Len(gen.pages)
        /\ gen.yielded = Elements(gen.pages)

\* a stream of three pages, the first of two elements, consumed to its end
C1_Witness ==
    /\ gen.pc = "DONE"
    /\ Len(gen.pages) = 3
    /\ Len(gen.pages[1].elements) = 2
    /\ Len(gen.yielded) >= 3

\* the requests of one call thread the token: the first carries the empty
\* token, request k+1 carries the non-empty token of response k, and after a
\* response with a non-empty token the next request has left unless the
\* stream is suspended (suspended says whether it is)
TokenThreaded(sent, pages, suspended) ==
    /\ Len(sent) >= 1 => sent[1] = <<>>
    /\ \A k \in 1..(Len(sent) - 1) :
        /\ k <= Len(pages)
        /\ sent[k + 1] = pages[k].token
        /\ pages[k].token # <<>>
    /\ \A k \in 1..Len(pages) :
        pages[k].token # <<>> =>
            \/ Len(sent) >= k + 1
            \/ k = Len(pages) /\ suspended

\* C2: in a search stream and in list_reference_bases alike, the first
\* request carries an empty pageToken, request k+1 carries the
\* nextPageToken of response k, and request k+1 is issued exactly when that
\* token is not empty (a search stream issues it when the caller asks past
\* the last element of page k).
C2_PageTokenThreading ==
    /\ TokenThreaded(gen.sent, gen.pages, gen.pc = "EMIT")
    /\ TokenThreaded(lrb.sent, lrb.pages, FALSE)

\* a search stream whose second and third requests carried tok1 and tok2
C2_Witness ==
    /\ Len(gen.sent) = 3
    /\ gen.pages[1].token = tok1 /\ gen.sent[2] = tok1
    /\ gen.pages[2].token = tok2 /\ gen.sent[3] = tok2

\* list_reference_bases has returned after the pages ("ACGT", "p1"),
\* ("TTT", "p2"), ("", "")
ThreeFragments ==
    /\ lrb.returned
    /\ lrb.pages = << [sequence |-> ACGT, token |-> p1],
                      [sequence |-> TTT, token |-> p2],
                      [sequence |-> <<>>, token |-> <<>>] >>

\* C3: list_reference_bases served the fragments "ACGT", "TTT", "" with the
\* tokens "p1", "p2", "" makes exactly three round trips and returns
\* "ACGTTTT".
C3_ThreeFragmentsThreeRoundTrips ==
    ThreeFragments =>
        /\ Len(lrb.sent) = 3
        /\ lrb.result = <<"A", "C", "G", "T", "T", "T", "T">>

\* C3 as stated: the same call makes exactly two round trips and returns
\* "ACGTTTT".
C3_ThreeFragmentsTwoRoundTrips ==
    ThreeFragments =>
        /\ Len(lrb.sent) = 2
        /\ lrb.result = <<"A", "C", "G", "T", "T", "T", "T">>

\* the call of C3 has returned
C3_Witness == ThreeFragments /\ lrb.result = ACGT \o TTT

C5_GetIsOneTransportCall ==
    [][getc' # getc => /\ getc'.calls = 1
                       /\ UNCHANGED <<gen, lrb>>
                       /\ getc'.pc = "RETURNED" => getc.pc = "AWAIT"]_vars

\* a get returned an object that holds a nextPageToken, after one call
C5_Witness ==
    /\ getc.pc = "RETURNED"
    /\ getc.calls = 1
    /\ next_page_token(getc.obj) # <<>>

\* C6: a search stream has at most one page request under way; while one
\* is under way every element of every page received has been yielded and
\* the caller is waiting for a further element; while the stream is
\* suspended at an element, the round trips made are those of the pages up
\* to the one holding that element.
C6_StreamIsLazy ==
    /\ Len(gen.sent) <= Len(gen.pages) + 1
    /\ gen.pc = "AWAIT_PAGE" =>
        /\ Len(gen.sent) = Len(gen.pages) + 1
        /\ gen.yielded = Elements(gen.pages)
        /\ gen.delivered = "blocked"
    /\ gen.pc = "EMIT" =>
        /\ Len(gen.sent) = Len(gen.pages)
        /\ gen.idx \in 1..Len(gen.pages[Len(gen.pages)].elements)
        /\ gen.yielded = Elements(SubSeq(gen.pages, 1, Len(gen.pages) - 1))
                         \o SubSeq(gen.pages[Len(gen.pages)].elements, 1, gen.idx)

\* the caller stopped at the last element of a first page that names a
\* next page: one round trip has been made
C6_Witness ==
    /\ gen.pc = "EMIT"
    /\ Len(gen.pages) = 1
    /\ gen.pages[1].token # <<>>
    /\ gen.idx = Len(gen.pages[1].elements)
    /\ Len(gen.sent) = 1

\* C7: once a search stream has been consumed to its end, a further request
\* for an element is answered by StopIteration, yields nothing and issues no
\* round trip; only a new search call, with a fresh request, gives elements
\* again.
C7_StreamNotRestartable ==
    [][gen.pc = "DONE" =>
        \/ /\ gen'.pc = "DONE"
           /\ gen'.sent = gen.sent
           /\ gen'.yielded = gen.yielded
           /\ gen'.delivered = "StopIteration"
           /\ trips' = trips \/ gen' = gen
        \/ gen' = Generator(_page_size)]_vars

\* a stream that yielded elements, ended, and was asked once more
C7_Witness ==
    /\ gen.pc = "DONE"
    /\ gen.stops = 2
    /\ Len(gen.yielded) >= 1

----------------------------------------------------------------------------
(* Properties of the decoder, checked under SpecDecode *)

Decoded == outcome # Pending

C9_NonEnvelopePassesThrough ==
    (Decoded /\ ~wire.envelope) =>
        /\ outcome.raised # "TypeError"
        /\ outcome.defed = wire.text

\* C10: once the defederation pass has unwrapped an envelope, the schema
\* decoder is called with the JSON encoding, whatever encoding was declared.
C10_UnwrappedDecodedAsJson ==
    (Decoded /\ wire.envelope /\ outcome.decoded_as # "") =>
        outcome.decoded_as = JSON_MIME

\* how a page request can fail
Failures ==
    {"RequestNonSuccessException", "BackendException", "EmptyResponseException",
     "DecodeFailure", "TypeError"}

\* C16: when round trip k of a search stream or of list_reference_bases
\* fails, the failure reaches the caller in that step; the failed request
\* is not sent again (the requests sent are the k-1 answered by a page and
\* that one); a search stream has then yielded exactly the elements of
\* pages 1..k-1 and keeps them; every later request for an element gets
\* StopIteration, yields nothing and issues no round trip.
C16_FailureAbandonsTheSequence ==
    /\ [](/\ Len(gen.sent) <= Len(gen.pages) + 1
          /\ Len(lrb.sent) <= Len(lrb.pages) + 1
          /\ gen.pc = "RAISED" =>
                /\ Len(gen.sent) = Len(gen.pages) + 1
                /\ gen.yielded = Elements(gen.pages)
                /\ gen.delivered \in Failures \cup {"StopIteration"}
          /\ lrb.pc = "RAISED" =>
                /\ Len(lrb.sent) = Len(lrb.pages) + 1
                /\ lrb.raised \in Failures
                /\ ~lrb.returned /\ lrb.result = <<>>)
    /\ [][/\ (gen.pc = "AWAIT_PAGE" /\ gen'.pc = "RAISED") =>
                /\ gen'.delivered \in Failures
                /\ gen'.sent = gen.sent /\ gen'.yielded = gen.yielded
          /\ gen.pc = "RAISED" =>
                \/ /\ gen'.pc = "RAISED"
                   /\ gen'.sent = gen.sent /\ gen'.yielded = gen.yielded
                   /\ gen' # gen => gen'.delivered = "StopIteration" /\ trips' = trips
                \/ gen' = Generator(_page_size)
          /\ lrb.pc = "RAISED" =>
                lrb' = lrb \/ lrb' = list_reference_bases_enter]_vars

\* the second page request of a stream failed after a page of two elements,
\* and the caller asked for an element again
C16_Witness ==
    /\ gen.pc = "RAISED"
    /\ Len(gen.sent) = 2 /\ Len(gen.pages) = 1
    /\ gen.yielded = <<One, Two>>
    /\ gen.delivered = "StopIteration" /\ gen.stops >= 1

----------------------------------------------------------------------------
(* Properties of the received-byte counter, checked under Spec *)

\* C12: after any sequence of operations the received-byte counter is the
\* sum of the lengths of the raw payloads handed to the decoder, each
\* measured before defederation, whether or not its decode then succeeded.
C12_CounterSumsPayloadsHanded == _protocol_bytes_received = log.handed

\* C12 as stated: the counter is the sum of the raw lengths of the payloads
\* whose decode succeeded.
C12_CounterSumsSuccessfulDecodes == _protocol_bytes_received = log.successful

\* a payload was decoded, and another went to the decoder and failed there
C12_Witness ==
    /\ log.successful > 0
    /\ log.handed > log.successful
    /\ _protocol_bytes_received = log.handed

\* C13: the received-byte counter is 0 at construction and no operation,
\* failed or successful, set_page_size included, ever decreases or resets
\* it.
C13_CounterStartsAtZeroAndGrows ==
    /\ _protocol_bytes_received = 0
    /\ [][_protocol_bytes_received' >= _protocol_bytes_received]_vars

\* bytes were counted, then the page size was changed and a get failed
C13_Witness ==
    /\ _protocol_bytes_received > 0
    /\ _page_size # PyNone
    /\ getc.pc = "RAISED"
    /\ log.count = 2

----------------------------------------------------------------------------
(* Properties of one transaction, checked under SpecTransaction *)

\* C14: a Remote response whose status is not 2xx ends the operation with
\* RequestNonSuccessException; its body is not handed to the decoder, so it
\* is neither defederated nor decoded, and the received-byte counter is as
\* it was.
C14_FailedStatusIsNotDecoded ==
    (txn.done /\ transport = "Remote" /\ txn.response.status_code \notin 200..299) =>
        /\ txn.result.raised = "RequestNonSuccessException"
        /\ ~txn.call.called
        /\ _protocol_bytes_received = txn.before

\* a status 500 with a body came back to a client that had counted bytes
C14_Witness ==
    /\ txn.done /\ transport = "Remote"
    /\ txn.response.status_code = 500 /\ txn.response.text # <<>>
    /\ txn.before > 0
    /\ _protocol_bytes_received = txn.before

\* C15: when the backend of a Local client raises, the transaction ends
\* with the error kind a Remote client raises for a failed call.
C15_LocalFailureIsTransportError ==
    (txn.done /\ transport = "Local" /\ txn.response.backend_raised) =>
        txn.result.raised = "RequestNonSuccessException"

\* C19: the encoding handed to the decoder is, for a Remote response, the
\* Content-Type it declares when it declares one, the client's configured
\* encoding otherwise, whatever the Accept value (the configured encoding)
\* was; for a Local response it is the client's configured encoding.
C19_DecoderEncoding ==
    (txn.done /\ txn.call.called) =>
        txn.call.content_type =
            IF transport = "Remote" /\ txn.response.content_type # NoHeader
            THEN txn.response.content_type
            ELSE _serialization

\* a Remote client configured for protobuf decoded a response declared JSON
C19_Witness ==
    /\ txn.done /\ txn.call.called /\ transport = "Remote"
    /\ _serialization = PROTOBUF_MIME
    /\ txn.response.content_type = JSON_MIME
    /\ txn.call.content_type = JSON_MIME

\* a credential was given to the constructor: an id_token that is a token
CredentialSupplied == _id_token # PyNone /\ _id_token # PyStr(<<>>)

----------------------------------------------------------------------------
(* Properties of paired runs, checked under SpecPair *)

----------------------------------------------------------------------------
(* Properties of construction, checked under Spec *)

\* C17: after construction the configured encoding of either client, and
\* the Accept header of a Remote client, is one of the supported encodings
\* (an unsupported one asked for has become application/protobuf).
C17_ConfiguredEncodingSupported ==
    /\ _serialization \in MIMETYPES
    /\ transport = "Remote" => _session_headers.Accept \in MIMETYPES

----------------------------------------------------------------------------
(* Further properties of the decoder, checked under SpecDecode *)

\* the defederation pass returned a payload
Defederated == Decoded /\ outcome.raised # "TypeError"

\* C11: the decoder raises EmptyResponseException exactly when the payload
\* after defederation is empty and the encoding is application/json; it
\* then has not called the schema decoder; an empty payload with another
\* encoding never raises it.
C11_EmptyResponseIffEmptyJson ==
    Decoded =>
        /\ outcome.raised = "EmptyResponseException" <=>
               (Defederated /\ outcome.defed = <<>> /\ content_type = JSON_MIME)
        /\ outcome.raised = "EmptyResponseException" => outcome.decoded_as = ""
        /\ (Defederated /\ outcome.defed = <<>> /\ content_type # JSON_MIME) =>
               outcome.decoded_as = content_type

\* the empty payload was decoded as application/json
C11_Witness ==
    /\ Decoded /\ wire.text = <<>> /\ content_type = JSON_MIME
    /\ outcome.raised = "EmptyResponseException"
    /\ outcome.decoded_as = ""

\* the empty payload was decoded as application/protobuf: no error
C11_WitnessBinary ==
    /\ Decoded /\ wire.text = <<>> /\ content_type = PROTOBUF_MIME
    /\ outcome.raised = ""

----------------------------------------------------------------------------
(* Properties of the other operations, checked under SpecOperations *)

\* round trips of the call of an operation so far
OperationRoundTrips ==
    IF opcall.op \in {"list_peers", "search_genotypes"} THEN Len(opcall.st.sent)
    ELSE opcall.st.calls

\* C21: a call of get_info, of announce or of list_peers performs one round
\* trip and no more, whatever nextPageToken its decoded response carries.
C21_SingleShotNeverIterates ==
    opcall.op \in {"get_info", "announce", "list_peers"} => OperationRoundTrips <= 1

\* get_info and announce alone: one round trip each, and the call is over
\* when its response is in, whatever nextPageToken it carries
C21_InfoAndAnnounceAreSingleShot ==
    opcall.op \in {"get_info", "announce"} =>
        /\ OperationRoundTrips = 1
        /\ opcall.st.pc \in {"AWAIT", "RETURNED", "RAISED"}

C21_InfoWithTokenReturned ==
    /\ opcall.op \in {"get_info", "announce"} /\ opcall.st.pc = "RETURNED"
    /\ next_page_token(opcall.st.obj) # <<>>

\* list_peers after a page that carries a nextPageToken
C21_PeersSecondRoundTrip ==
    /\ opcall.op = "list_peers" /\ Len(opcall.st.sent) = 2
    /\ opcall.st.sent[2] = tok1 /\ opcall.st.pages[1].token = tok1

\* C22: search_genotypes, like every search operation, is an element
\* stream: when the request for page k+1 leaves, the caller has been given
\* every element of pages 1..k, and once the call is over the caller has
\* been given the elements of every page received, in order.
C22_EverySearchIsElementStream ==
    opcall.op = "search_genotypes" =>
        /\ Len(opcall.st.sent) >= 2 =>
               opcall.st.handed = Elements(SubSeq(opcall.st.resps, 1, Len(opcall.st.sent) - 1))
        /\ opcall.st.returned => opcall.st.handed = Elements(opcall.st.resps)

\* search_genotypes over two pages: both fetched inside the call, the
\* second one left out of what is returned
C22_GenotypesSecondPageDropped ==
    /\ opcall.op = "search_genotypes" /\ opcall.st.returned
    /\ Len(opcall.st.resps) = 2 /\ opcall.st.resps[2].elements # <<>>
    /\ opcall.st.handed = opcall.st.resps[1].elements

----------------------------------------------------------------------------
(* Properties of the engine's states, checked under Spec *)

\* the order INIT, AWAIT_PAGE, EMIT, DONE; an iteration ended by an
\* exception is placed with DONE
StateOrder(pc) ==
    CASE pc = "none" -> 0
      [] pc = "INIT" -> 1
      [] pc = "AWAIT_PAGE" -> 2
      [] pc = "EMIT" -> 3
      [] OTHER -> 4

\* a step of the iteration under way: a new search call, which starts a new
\* iteration in INIT, is not one
SameIteration == gen.pc # "none" /\ gen'.pc # "INIT"

\* C23, as stated: no step of an iteration leads to an earlier state of the
\* order INIT, AWAIT_PAGE, EMIT, DONE, and DONE is left by no step.
C23_NoStepGoesBack ==
    [][SameIteration =>
        /\ StateOrder(gen'.pc) >= StateOrder(gen.pc)
        /\ gen.pc = "DONE" => gen'.pc = "DONE"]_vars

\* C23: the one step of an iteration that leads to an earlier state is
\* from EMIT back to AWAIT_PAGE, taken after the last element of a page whose
\* nextPageToken is not empty, the token copied into the request; DONE, and
\* the end by an exception, are left by no step.
C23_OnlyEmitToAwaitPageGoesBack ==
    [][SameIteration =>
        /\ \/ StateOrder(gen'.pc) >= StateOrder(gen.pc)
           \/ /\ gen.pc = "EMIT" /\ gen'.pc = "AWAIT_PAGE"
              /\ gen.idx = Len(gen.value_list)
              /\ gen.response_token # <<>>
              /\ gen'.page_token = gen.response_token
        /\ gen.pc \in {"DONE", "RAISED"} => gen'.pc = gen.pc]_vars

\* an iteration that emitted the elements of a first page and is waiting
\* for the second
C23_Witness ==
    /\ gen.pc = "AWAIT_PAGE"
    /\ Len(gen.sent) = 2
    /\ gen.yielded # <<>>
    /\ gen.sent[2] = gen.pages[1].token

----------------------------------------------------------------------------
(* Termination, checked under SpecToTheEnd *)

\* C24: against a server that fails no call and eventually returns a page
\* with an empty nextPageToken, a search stream whose caller keeps asking
\* for elements reaches its end, having yielded the elements of the pages
\* received and no more, and a list_reference_bases call returns.
C24_Termination ==
    /\ (gen.pc = "INIT") ~> (gen.pc = "DONE" /\ gen.yielded = Elements(gen.pages))
    /\ (lrb.pc = "AWAIT_PAGE") ~> lrb.returned

\* a stream that ended after more than one page
C24_Witness ==
    /\ gen.pc = "DONE"
    /\ Len(gen.sent) >= 2
    /\ gen.pages[Len(gen.pages)].token = <<>>
    /\ gen.stops >= 1

----------------------------------------------------------------------------
(* Properties of two streams on one client, checked under SpecStreams *)

RECURSIVE Alone(_, _)
\* the generator of a search call that is the only one on its client, after
\* the same requests of its caller and the same results of its page requests
Alone(g, events) ==
    IF events = <<>> THEN g
    ELSE Alone(IF Head(events).asked THEN _run_search_request_next(g)
               ELSE _run_search_request_page(g, Head(events)),
               Tail(events))

\* the page tokens a stream has received
TokensReceived(g) == { g.pages[k].token : k \in 1..Len(g.pages) }

\* C25: of two streams of two search calls on one client, whatever the
\* order of the requests for elements: each stream's requests carry the
\* empty token or a token of that stream's own responses, threaded in
\* order; each stream is in the state, with the elements yielded and the
\* round trips made, that it is in when run alone; the received-byte
\* counter is the sum of the payload lengths of both streams; and a step of
\* one stream changes nothing of the other nor of the client's
\* configuration.
C25_StreamsAreIndependent ==
    /\ [](\A i \in 1..2 :
            /\ \A k \in 1..Len(streams.g[i].sent) :
                   streams.g[i].sent[k] \in {<<>>} \cup TokensReceived(streams.g[i])
            /\ TokenThreaded(streams.g[i].sent, streams.g[i].pages, streams.g[i].pc = "EMIT")
            /\ streams.g[i].pc # "none" =>
                   streams.g[i] = Alone(Generator(_page_size), streams.events[i]))
    /\ [](_protocol_bytes_received = streams.handed[1] + streams.handed[2])
    /\ [][/\ \A i \in 1..2 :
               streams'.g[i] # streams.g[i] => streams'.g[3 - i] = streams.g[3 - i]
           /\ UNCHANGED client]_vars

\* the first stream ended after two pages while the second, given another
\* token, is suspended in its first page
C25_Witness ==
    /\ streams.g[1].sent = <<<<>>, tok1>>
    /\ streams.g[2].sent = <<<<>>>>
    /\ streams.g[1].pc = "DONE"
    /\ streams.g[2].pc = "EMIT" /\ streams.g[2].pages[1].token = tok2
    /\ streams.events[1][3].asked /\ Len(streams.events[2]) = 2
    /\ streams.handed[1] > 0 /\ streams.handed[2] > 0

----------------------------------------------------------------------------
(* Properties of routing, checked under SpecRoute *)

\* {base}: the url prefix, a separator at its end left out
Base(url_prefix) ==
    IF url_prefix # <<>> /\ url_prefix[Len(url_prefix)] = "/"
    THEN SubSeq(url_prefix, 1, Len(url_prefix) - 1)
    ELSE url_prefix

\* C26: every request of a call goes where the operation routes it and
\* nowhere else.  Get of resource r with id i: GET {base}/r/i, no body, on
\* the Remote transport; the get-table entry of r, with (i, configured
\* encoding), on the Local transport.  Search on r: POST {base}/r/search
\* with the JSON-serialized request as body, on the Remote transport; the
\* search-table entry of r, with (serialized request, configured encoding),
\* on the Local transport.  Accumulate: POST {base}/listreferencebases, or
\* the backend's runListReferenceBases.  A get issues one request.
C26_OperationRouting ==
    /\ routed.op = "get" => Len(routed.issued) <= 1
    /\ \A k \in 1..Len(routed.issued) :
        LET q == routed.issued[k] IN
        /\ q.via = IF transport = "Remote" THEN "session" ELSE "backend"
        /\ (transport = "Remote" /\ routed.op = "get") =>
               /\ q.method = "GET"
               /\ q.url = Base(routed.url_prefix) \o <<"/", routed.resource, "/", routed.id>>
               /\ q.data = <<>>
        /\ (transport = "Remote" /\ routed.op = "search") =>
               /\ q.method = "POST"
               /\ q.url = Base(routed.url_prefix) \o <<"/", routed.resource, "/", "search">>
               /\ json_loads(q.data).ok /\ json_loads(q.data).val.t = "dict"
        /\ (transport = "Remote" /\ routed.op = "accumulate") =>
               /\ q.method = "POST"
               /\ q.url = Base(routed.url_prefix) \o <<"/", "listreferencebases">>
               /\ json_loads(q.data).ok /\ json_loads(q.data).val.t = "dict"
        /\ (transport = "Local" /\ routed.op = "get") =>
               /\ q.method = _get_method_map[routed.resource]
               /\ q.id = routed.id /\ q.serialization = _serialization
        /\ (transport = "Local" /\ routed.op = "search") =>
               /\ q.method = _search_method_map[routed.resource]
               /\ json_loads(q.data).ok /\ json_loads(q.data).val.t = "dict"
               /\ q.serialization = _serialization
        /\ (transport = "Local" /\ routed.op = "accumulate") =>
               /\ q.method = "runListReferenceBases"
               /\ q.serialization = _serialization

\* a search on variantsets over two pages, through a url prefix that ends
\* with a separator
C26_Witness ==
    /\ routed.done /\ routed.op = "search" /\ routed.resource = "variantsets"
    /\ transport = "Remote" /\ routed.url_prefix = <<"http://host", "/">>
    /\ Len(routed.issued) = 2
    /\ routed.issued[2].url = <<"http://host", "/", "variantsets", "/", "search">>

\* a get on a LocalClient
C26_WitnessLocalGet ==
    /\ routed.done /\ routed.op = "get" /\ routed.resource = "readgroups"
    /\ transport = "Local" /\ routed.issued[1].method = "runGetReadGroup"

----------------------------------------------------------------------------
(* Properties of the request's fields, checked under Spec *)

----------------------------------------------------------------------------
(* Properties of the search call itself, checked under Spec *)

\* C28: a search call sends nothing and changes nothing of the client: a
\* stream whose caller has asked for no element has issued no request and
\* received no page; the step that creates it leaves the client's fields,
\* the received-byte counter and the count of round trips as they were; and
\* the stream's first request leaves, with an empty page token, when the
\* caller asks for the first element.
C28_SearchCallIsInert ==
    /\ [](gen.delivered = "nothing" =>
            /\ gen.pc \in {"none", "INIT"}
            /\ gen.sent = <<>> /\ gen.pages = <<>> /\ gen.yielded = <<>>)
    /\ [][(gen' # gen /\ gen'.delivered = "nothing") =>
              UNCHANGED <<client, _protocol_bytes_received, trips, log>>]_vars
    /\ [][(gen.pc = "INIT" /\ gen' # gen /\ gen'.pc # "INIT") =>
              /\ gen'.pc = "AWAIT_PAGE" /\ gen'.sent = <<<<>>>>
              /\ trips' = trips + 1
              /\ _protocol_bytes_received' = _protocol_bytes_received]_vars

\* a client that had received bytes over two round trips made a search
\* call, and the stream was left alone while a get went on
C28_Witness ==
    /\ gen.pc = "INIT" /\ gen.delivered = "nothing"
    /\ getc.pc = "AWAIT"
    /\ trips = 3 /\ log.count = 2
    /\ _protocol_bytes_received > 0

----------------------------------------------------------------------------
(* Further properties of one transaction, checked under SpecTransaction *)

\* the transaction ended before a payload reached the decoder
TransportFailure == ~txn.call.called

\* C29, as stated: a payload that reaches the decoder is counted, whatever
\* the decoder then does, and a failed call leaves the counter as it was
\* only when its failure is a transport failure.
C29_UnchangedOnlyByTransportFailure ==
    txn.done =>
        /\ txn.call.called =>
               _protocol_bytes_received = txn.before + Len(txn.response.text)
        /\ (txn.result.raised # "" /\ _protocol_bytes_received = txn.before) =>
               TransportFailure

\* C29: a payload that reaches the decoder is counted at its raw length
\* before the empty-payload guard and the decode run, so a call that fails
\* in the decoder has counted it; a transport failure counts nothing; and a
\* failed call leaves the counter as it was only when its failure is a
\* transport failure or its payload was empty, which the payload of every
\* EmptyResponse failure is.
C29_CountedBeforeDecoding ==
    txn.done =>
        /\ txn.call.called =>
               _protocol_bytes_received = txn.before + Len(txn.response.text)
        /\ TransportFailure =>
               /\ _protocol_bytes_received = txn.before
               /\ txn.result.raised \in {"RequestNonSuccessException", "BackendException"}
        /\ (txn.result.raised # "" /\ _protocol_bytes_received = txn.before) =>
               TransportFailure \/ txn.response.text = <<>>
        /\ txn.result.raised = "EmptyResponseException" => txn.response.text = <<>>

\* a client that had counted bytes was handed a payload the decoder failed
\* on, and counted it
C29_Witness ==
    /\ txn.done /\ txn.call.called
    /\ txn.result.raised = "DecodeFailure"
    /\ txn.before > 0
    /\ _protocol_bytes_received = txn.before + Len(txn.response.text)
    /\ Len(txn.response.text) > 0

\* an empty payload: the call failed in the decoder and the counter is as
\* it was
C29_EmptyPayloadFailure ==
    /\ txn.done /\ txn.call.called
    /\ txn.result.raised = "EmptyResponseException"
    /\ _protocol_bytes_received = txn.before

\* C30: a Remote response is taken for a success exactly when its status
\* code is 200: with any other code, 201 and 204 among them, the
\* transaction raises RequestNonSuccessException, its body does not reach
\* the decoder and the counter is as it was; with 200 the body is handed to
\* the decoder and the transport error is not raised.
C30_SuccessIsExactly200 ==
    (txn.done /\ transport = "Remote") =>
        /\ txn.response.status_code # 200 =>
               /\ txn.result.raised = "RequestNonSuccessException"
               /\ ~txn.call.called
               /\ txn.result.obj = NoObject
               /\ _protocol_bytes_received = txn.before
        /\ txn.response.status_code = 200 =>
               /\ txn.call.called
               /\ txn.result.raised # "RequestNonSuccessException"

\* a 204 that carries a page which would decode
C30_Witness ==
    /\ txn.done /\ transport = "Remote"
    /\ txn.response.status_code = 204
    /\ txn.response.text = serialize(SearchResponse(<<One>>, tok1), JSON_MIME)
    /\ txn.response.content_type = JSON_MIME
    /\ txn.result.raised = "RequestNonSuccessException"
    /\ txn.before > 0 /\ _protocol_bytes_received = txn.before

----------------------------------------------------------------------------
(* Further properties of the other operations, checked under               *)
(* SpecOperations                                                          *)

----------------------------------------------------------------------------
(* Continuation, checked under Spec                                        *)

\* page k of a sequence of pages has been gone through to its end
Finished(pages, pc, k) == k < Len(pages) \/ pc \in {"AWAIT_PAGE", "DONE", "RETURNED"}

\* C32: whether a further round trip follows a page depends on the page's
\* nextPageToken alone.  In a search stream a page with no result but with
\* a token adds nothing to what was yielded and is followed by a request
\* carrying its token; a page with an empty token is the last one, with no
\* request after it, whatever it held.  The same holds of the fragments of
\* list_reference_bases.
C32_ContinuationByTokenOnly ==
    /\ \A k \in 1..Len(gen.pages) :
        /\ gen.pages[k].token = <<>> => k = Len(gen.pages) /\ Len(gen.sent) = k
        /\ gen.pages[k].token # <<>> /\ Finished(gen.pages, gen.pc, k) =>
               Len(gen.sent) > k /\ gen.sent[k + 1] = gen.pages[k].token
        /\ gen.pages[k].elements = <<>> /\ gen.pages[k].token # <<>> =>
               /\ Len(gen.sent) > k
               /\ gen.pc # "DONE" \/ k < Len(gen.pages)
    /\ gen.pc \in {"AWAIT_PAGE", "DONE"} => gen.yielded = Elements(gen.pages)
    /\ Len(gen.yielded) <= Len(Elements(gen.pages))
    /\ \A k \in 1..Len(lrb.pages) :
        /\ lrb.pages[k].token = <<>> =>
               k = Len(lrb.pages) /\ Len(lrb.sent) = k /\ lrb.returned
        /\ lrb.pages[k].token # <<>> =>
               Len(lrb.sent) > k /\ lrb.sent[k + 1] = lrb.pages[k].token

\* an empty page with a token was followed by a second round trip, whose
\* page held an element and no token and ended the stream
C32_Witness ==
    /\ gen.pc = "DONE"
    /\ gen.pages = <<[elements |-> <<>>, token |-> tok1],
                     [elements |-> <<One>>, token |-> <<>>]>>
    /\ gen.sent = <<<<>>, tok1>>
    /\ gen.yielded = <<One>>

\* an empty fragment with a token was followed by a second round trip
C32_WitnessBases ==
    /\ lrb.returned
    /\ Len(lrb.pages) = 2
    /\ lrb.pages[1].sequence = <<>> /\ lrb.pages[1].token = p1
    /\ lrb.pages[2].sequence = ACGT /\ lrb.pages[2].token = <<>>
    /\ lrb.sent = <<<<>>, p1>>

----------------------------------------------------------------------------
(* The tables of the Local transport, checked under SpecRoute              *)

\* C33: every object_name a get method of the client passes has an entry
\* in the get table of a LocalClient and every object_name a search method
\* passes has one in its search table, so that on a Local client no round
\* trip of a get or of a search ends in a failed lookup: each one invokes a
\* backend method, and every round trip of one operation invokes the
\* method the table held for the resource when the client was built.
C33_LocalTablesAreTotal ==
    /\ GetResources \subseteq DOMAIN _get_method_map
    /\ SearchResources \subseteq DOMAIN _search_method_map
    /\ transport = "Local" =>
        \A k \in 1..Len(routed.issued) :
            /\ routed.issued[k].via = "backend"
            /\ routed.op = "get" =>
                   routed.issued[k].method = _get_method_map[routed.resource]
            /\ routed.op = "search" =>
                   routed.issued[k].method = _search_method_map[routed.resource]

\* a search of genotypes on a Local client made two round trips, both to
\* runSearchGenotypes
C33_Witness ==
    /\ transport = "Local"
    /\ routed.op = "search" /\ routed.resource = "genotypes"
    /\ Len(routed.issued) = 2
    /\ routed.issued[1].method = "runSearchGenotypes"
    /\ routed.issued[2].method = "runSearchGenotypes"

\* a get of a dataset on a Local client invoked runGetDataset
C33_WitnessGet ==
    /\ transport = "Local"
    /\ routed.op = "get" /\ routed.resource = "datasets"
    /\ Len(routed.issued) = 1
    /\ routed.issued[1].method = "runGetDataset"

----------------------------------------------------------------------------
(* The path-based primitives of the Local transport, checked under         *)
(* SpecPaths                                                               *)

\* the paths a LocalClient serves: "info" by get, "announce" and
\* "peers/list" by post
ServedLocally(op, path) ==
    \/ op = "get_path" /\ path = "info"
    \/ op = "post_path" /\ path \in {"announce", "peers/list"}

\* C34: on a Local client a path-based primitive called with a path it
\* does not serve ends in an error, having invoked no backend method, handed
\* nothing to the decoder and left the received-byte counter as it was;
\* called with a path it serves, it invokes one backend method.
C34_LocalServesThreePathsOnly ==
    transport = "Local" /\ txn.done =>
        IF ServedLocally(routed.op, routed.resource)
        THEN /\ Len(routed.issued) = 1 /\ routed.issued[1].via = "backend"
             /\ txn.call.called <=> ~txn.response.backend_raised
        ELSE /\ routed.issued = <<>>
             /\ ~txn.call.called
             /\ txn.result.raised = "TypeError"
             /\ txn.result.obj = NoObject
             /\ _protocol_bytes_received = txn.before

\* a post with the path "info", which a get would have served, failed on a
\* Local client that had received bytes before
C34_Witness ==
    /\ transport = "Local" /\ txn.done
    /\ routed.op = "post_path" /\ routed.resource = "info"
    /\ txn.result.raised = "TypeError"
    /\ txn.before > 0 /\ _protocol_bytes_received = txn.before

\* a get with the path "peers" failed on a Local client
C34_WitnessGet ==
    /\ transport = "Local" /\ txn.done
    /\ routed.op = "get_path" /\ routed.resource = "peers"
    /\ txn.result.raised = "TypeError"

----------------------------------------------------------------------------
(* Round trips without a cap, checked under SpecWithoutEnd                 *)

\* C35: against a server that returns a non-empty nextPageToken on each of
\* its first MaxRoundTrips pages, a search stream whose caller keeps asking
\* and a list_reference_bases call each go on to a further round trip, one
\* more than the pages served; and for as long as every page carries a
\* token the stream does not end and list_reference_bases does not return.
C35_NoCapOnRoundTrips ==
    /\ [](gen.pc # "DONE" /\ gen.stops = 0 /\ ~lrb.returned /\ lrb.pc # "RETURNED")
    /\ (gen.pc = "INIT") ~>
           (gen.pc = "AWAIT_PAGE" /\ Len(gen.pages) = MaxRoundTrips
                                   /\ Len(gen.sent) > MaxRoundTrips)
    /\ (lrb.pc = "AWAIT_PAGE") ~>
           (lrb.pc = "AWAIT_PAGE" /\ Len(lrb.pages) = MaxRoundTrips
                                   /\ Len(lrb.sent) > MaxRoundTrips)

\* a stream that was served MaxRoundTrips pages, each with a token, has
\* yielded their elements and sent a further page request
C35_Witness ==
    /\ gen.pc = "AWAIT_PAGE"
    /\ Len(gen.pages) = MaxRoundTrips
    /\ \A k \in 1..Len(gen.pages) : gen.pages[k].token # <<>>
    /\ Len(gen.yielded) >= MaxRoundTrips
    /\ Len(gen.sent) = MaxRoundTrips + 1

\* a list_reference_bases call that was served MaxRoundTrips fragments, each
\* with a token, has sent a further page request and not returned
C35_WitnessBases ==
    /\ lrb.pc = "AWAIT_PAGE" /\ ~lrb.returned
    /\ Len(lrb.pages) = MaxRoundTrips
    /\ \A k \in 1..Len(lrb.pages) : lrb.pages[k].token # <<>>
    /\ Len(lrb.sent) = MaxRoundTrips + 1

====
